---- MODULE Spec2Model ----
(***************************************************************************)
(* The persistent services of trust-diary-demo: the Node service           *)
(* (src/service/trust-diary-service.js) and the Go service                 *)
(* (src/go-service/main.go).  Each keeps a trust list, an entry log and    *)
(* the per-peer sessions of the challenge-response handshake, and sends    *)
(* the log to the peers it has authenticated.  A run is a run of one of    *)
(* the two: `service` says which.                                          *)
(*                                                                         *)
(* Cryptography is symbolic.  A signature is the pair (signer, message);   *)
(* nacl.sign.detached.verify accepts it exactly when the claimed key is    *)
(* the signer and the message is the one verified against.  A box is the   *)
(* triple (nonce, recipient box key, plaintext).  nacl.randomBytes returns *)
(* a value never returned before: the n-th draw is the number n.           *)
(*                                                                         *)
(* The room is Trystero's: an action's send function called with no target *)
(* delivers to every peer in the room.  The service calls sendChallenge    *)
(* and sendEntry with the payload only.  The Go service sends on the data  *)
(* channel of one peer.                                                    *)
(***************************************************************************)
EXTENDS Integers, Sequences, FiniteSets, TLC

\* ---------------------------------------------------------------- bounds
MaxJoins == 2
MaxEntries == 3
MaxOutbox == 4
MaxAnnounce == 1
MaxTrustEdits == 2
MaxGoConns == 2
MaxGoChallenges == 2
MaxGoSent == 4
MaxGoTrustEdits == 1
MaxKeyDraws == 4
MaxCorruptions == 3
MaxNostrMessages == 3
MaxOffers == 3

\* ------------------------------------------------------------- universe
Peers == {"p1", "p2"}
Keys == {"K1", "K2"}
BoxKeys == {"B1", "B2"}
NoKey == "none"

\* p1 runs the reader client: it signs each challenge it receives with its own
\* key.  p2 is any other program in the room: it sends whatever it can build.
Reader == "p1"
Intruder == "p2"

\* The signing private keys a peer's process holds.
Holds(p) == IF p = Reader THEN {"K1"} ELSE {"K2"}

\* The peer that holds the box private key of a box public key.
BoxHolder(b) == IF b = "B1" THEN Reader ELSE Intruder

Signatures == [signer : Keys, msg : 1..MaxJoins]

NoSignature == [signer |-> NoKey, msg |-> 0]

\* The payload of a presence announcement, among the entry ids 1, 2, ...
Presence == 0

VARIABLES
    service,        \* the service that runs: "node", "go", "nostr", "encrypted" or "simple"
    trustedKeys,    \* this.trustedKeys: Map publicKey -> boxPublicKey, in insertion order
    entries,        \* this.entries: the log, a sequence of entry ids
    connections,    \* this.connections: Map peerId -> session, in insertion order
    pending,        \* entries whose add operation is suspended at `await this.saveEntries()`
    outbox,         \* every message the service has sent on the room, in send order
    challengeDraws, \* number of nacl.randomBytes(32) draws so far
    heard,          \* per peer: the challenges received on the room (the reader's: not yet answered)
    known,          \* the signatures the intruder has seen on the room
    failed,         \* history: peers whose current session has had a failed verification
    retired,        \* history: the challenges of the sessions that have ended
    trustEdits,     \* number of trust-list edits so far
    goTrustedUsers,   \* s.trustedUsers: the keys of the map
    goEntries,        \* s.entries
    goConnections,    \* s.connections: map peerID -> Connection
    goDataChannels,   \* s.dataChannels: map peerID -> ready state of the channel
    goSent,           \* per peerID: the messages sent on its data channel, in order
    goPending,        \* entries appended by a handleAddEntry that has not broadcast yet
    goPeerCount,      \* number of signaling connections accepted so far
    goChallengeDraws, \* number of rand.Read(challenge) draws so far
    goHeard,          \* per peer: the challenges received (the reader's: not yet answered)
    goFailed,         \* history: connections that have had a failed verification
    goTrustEdits,     \* number of trust-list edits so far
    identityFile,     \* identity.json in the data directory
    identity,         \* this.identity / s.identity of the running process
    loadResult,       \* how the identity load of the running process ended
    keyDraws,         \* number of signing key pairs generated so far
    corruptions,      \* number of times identity.json was damaged
    roomSalt,         \* config.roomSalt / s.roomSalt
    roomId,           \* this.roomId / s.roomID
    nostrRemote,      \* the peer whose answer s.peerConnection has taken as remote description
    nostrChannel,     \* ready state of s.dataChannel
    nostrEntries,     \* s.entries of the Nostr-signaled service
    nostrSent,        \* the messages sent on s.dataChannel, in order
    nostrInbox,       \* history: the messages handled by handleDataChannelMessage, in order
    nostrDraws,       \* number of rand.Read(challenge) draws of the Nostr-signaled service
    dropped,          \* history: the peers whose malformed response the Node service has handled
    goDropped,        \* history: the peerIDs whose malformed message the Go service has handled
    goPanicked,       \* the Go process has ended in a panic
    goOrphans,        \* the data channels whose callbacks outlive their connection record
    trustedReaders,   \* s.trustedReaders of the Nostr services that publish an offer every 30 s
    peerConnection,   \* s.peerConnection: the number of the connection it points to, 0 for nil
    offerID,          \* s.offerID: the offer made for connection n has id n, 0 for ""
    runStep,          \* where run() is: asleep, or inside createAndPublishOffer
    remoteDescription, \* per peer connection: the answer SetRemoteDescription has taken
    answerLog         \* what handleWebRTCAnswer logged last, and for which answer

\* What lies outside the running service's P2P state: the data directory
\* and the identity loaded from it.
startupState == <<identityFile, identity, loadResult, keyDraws, corruptions, roomSalt, roomId>>

\* The state of the Go service that signals over Nostr relays.
nostrState == <<nostrRemote, nostrChannel, nostrEntries, nostrSent, nostrInbox, nostrDraws>>

\* What handling a malformed message or a late callback leaves behind.
decodeState == <<dropped, goDropped, goPanicked, goOrphans>>

\* The state of the Go services that publish a new offer every 30 seconds.
offerState == <<trustedReaders, peerConnection, offerID, runStep, remoteDescription,
                answerLog>>

nodeState == <<service, trustedKeys, entries, connections, pending, outbox,
               challengeDraws, heard, known, failed, retired, trustEdits, startupState,
               nostrState, decodeState,
               offerState>>

goState == <<service, goTrustedUsers, goEntries, goConnections, goDataChannels, goSent,
             goPending, goPeerCount, goChallengeDraws, goHeard, goFailed, goTrustEdits,
             startupState, nostrState, decodeState,
             offerState>>

vars == <<nodeState, goState>>

\* ------------------------------------------------------- JavaScript Map
\* A Map is a sequence of <<key, value>> pairs with distinct keys; set() on a
\* present key keeps its position, delete() removes the pair.
MapKeys(m) == {m[i][1] : i \in 1..Len(m)}

MapHas(m, k) == k \in MapKeys(m)

MapGet(m, k) == m[CHOOSE i \in 1..Len(m) : m[i][1] = k][2]

MapSetEveryKey(m, k, v) ==
    IF MapHas(m, k)
    THEN [i \in 1..Len(m) |-> <<m[i][1], v>>]
    ELSE Append([i \in 1..Len(m) |-> <<m[i][1], v>>], <<k, v>>)

MapSetAppends(m, k, v) == Append(m, <<k, v>>)

\* Map.prototype.set: an existing key keeps its place and gets the new value
MapSet(m, k, v) ==
    IF MapHas(m, k)
    THEN [i \in 1..Len(m) |-> IF m[i][1] = k THEN <<k, v>> ELSE m[i]]
    ELSE Append(m, <<k, v>>)

MapDeleteNothing(m, k) == m

MapDelete(m, k) == SelectSeq(m, LAMBDA kv : kv[1] # k)

\* ------------------------------------------------------------ primitives
RandomBytesRepeats(draws) == 1

RandomBytes(draws) == draws + 1

VerifyAnyMessage(message, signature, publicKey) == signature.signer = publicKey

NaclSignDetachedVerify(message, signature, publicKey) ==
    /\ signature.signer = publicKey
    /\ signature.msg = message

EncryptForPeerContentNonce(data, peerBoxPublicKey, rnd) ==
    [nonce |-> data, boxKey |-> peerBoxPublicKey, plain |-> data]

EncryptForPeer(data, peerBoxPublicKey, rnd) ==
    [nonce |-> rnd, boxKey |-> peerBoxPublicKey, plain |-> data]

\* p2pActions.sendEntry(encrypted): no target, so every peer in the room gets
\* it.  `by` and `session` are history: the function that sent the message and
\* the challenge of the session it was encrypted for.
SendEntry(conns, encrypted, by, session) ==
    [type |-> "entry", to |-> MapKeys(conns), box |-> encrypted,
     by |-> by, session |-> session]

SendAnnouncementAsEntry(conns, encrypted) ==
    [type |-> "entry", to |-> MapKeys(conns), box |-> encrypted,
     by |-> "startPresenceBroadcast", session |-> 0]

SendAnnouncement(conns, encrypted) ==
    [type |-> "announce", to |-> MapKeys(conns), box |-> encrypted,
     by |-> "startPresenceBroadcast", session |-> 0]

\* Each box costs one nacl.randomBytes(nonceLength) draw and is sent at once.
NonceDraws == Len(outbox)

\* ---------------------------------------------------------------- sessions
Session(peerId) == MapGet(connections, peerId)

InRoom == MapKeys(connections)

IsAuthenticated(conns, peerId) ==
    MapHas(conns, peerId) /\ MapGet(conns, peerId).state = "authenticated"

\* sendEntriesToPeer(peerId): the messages it sends, in order, given the map
\* of sessions it reads.
SendEntriesToPeerReversed(conns, peerId) ==
    IF ~IsAuthenticated(conns, peerId) THEN <<>>
    ELSE IF ~MapHas(trustedKeys, MapGet(conns, peerId).publicKey) THEN <<>>
    ELSE [i \in 1..Len(entries) |->
            SendEntry(conns,
                EncryptForPeer(entries[Len(entries) + 1 - i],
                    MapGet(trustedKeys, MapGet(conns, peerId).publicKey),
                    RandomBytes(NonceDraws + i - 1)),
                "sendEntriesToPeer", MapGet(conns, peerId).challenge)]

SendEntriesToPeer(conns, peerId) ==
    IF ~IsAuthenticated(conns, peerId) THEN <<>>
    ELSE IF ~MapHas(trustedKeys, MapGet(conns, peerId).publicKey) THEN <<>>
    ELSE [i \in 1..Len(entries) |->
            SendEntry(conns,
                EncryptForPeer(entries[i],
                    MapGet(trustedKeys, MapGet(conns, peerId).publicKey),
                    RandomBytes(NonceDraws + i - 1)),
                "sendEntriesToPeer", MapGet(conns, peerId).challenge)]

\* The sessions broadcastEntry sends for, in the Map's iteration order.
BroadcastTargets ==
    SelectSeq(connections,
        LAMBDA kv : kv[2].state = "authenticated" /\ MapHas(trustedKeys, kv[2].publicKey))

BroadcastEntryToAll(entry) ==
    [i \in 1..Len(connections) |->
        SendEntry(connections,
            EncryptForPeer(entry,
                IF MapHas(trustedKeys, connections[i][2].publicKey)
                THEN MapGet(trustedKeys, connections[i][2].publicKey)
                ELSE NoKey,
                RandomBytes(NonceDraws + i - 1)),
            "broadcastEntry", connections[i][2].challenge)]

BroadcastEntry(entry) ==
    [i \in 1..Len(BroadcastTargets) |->
        SendEntry(connections,
            EncryptForPeer(entry,
                MapGet(trustedKeys, BroadcastTargets[i][2].publicKey),
                RandomBytes(NonceDraws + i - 1)),
            "broadcastEntry", BroadcastTargets[i][2].challenge)]

\* ------------------------------------------------------------------ Init
\* After initialize(): trusted.json is absent or holds one reader;
\* entries.json is absent, so the log is the service's first entry.
NodeInit ==
    /\ trustedKeys \in {<< >>, << <<"K1", "B1">> >>}
    /\ entries = <<1>>
    /\ connections = << >>
    /\ pending = {}
    /\ outbox = << >>
    /\ challengeDraws = 0
    /\ heard = [p \in Peers |-> {}]
    /\ known = {}
    /\ failed = {}
    /\ retired = {}
    /\ trustEdits = 0

\* SetRemoteDescription has taken no answer on the connection.
NoAnswer == [offer |-> 0, from |-> "none", decrypts |-> FALSE, current |-> 0]

\* handleWebRTCAnswer has logged nothing.
NoLog == [from |-> "none", offer |-> 0, current |-> 0, line |-> "none"]

\* The offer-publishing Nostr services do not run.
OfferIdle ==
    /\ trustedReaders = [x \in {} |-> 0]
    /\ peerConnection = 0
    /\ offerID = 0
    /\ runStep = "asleep"
    /\ remoteDescription = [pc \in 1..MaxOffers |-> NoAnswer]
    /\ answerLog = NoLog

\* No malformed message has been handled and no callback has outlived its
\* connection record.
NothingDropped ==
    /\ dropped = {}
    /\ goDropped = {}
    /\ goPanicked = FALSE
    /\ goOrphans = [x \in {} |-> 0]

\* The Node service does not run.
NodeIdle ==
    /\ trustedKeys = << >>
    /\ entries = << >>
    /\ connections = << >>
    /\ pending = {}
    /\ outbox = << >>
    /\ challengeDraws = 0
    /\ heard = [p \in Peers |-> {}]
    /\ known = {}
    /\ failed = {}
    /\ retired = {}
    /\ trustEdits = 0

\* --------------------------------------------------------------- actions
\* room.onPeerJoin -> handlePeerJoin(peerId)
HandlePeerJoin(peerId) ==
    /\ service = "node"
    /\ peerId \notin InRoom
    /\ challengeDraws < MaxJoins
    /\ LET challenge == RandomBytes(challengeDraws)
           conns == MapSet(connections, peerId,
                       [state |-> "challenging", challenge |-> challenge,
                        publicKey |-> NoKey, proof |-> NoSignature])
       IN /\ connections' = conns
          /\ challengeDraws' = challengeDraws + 1
          \* sendChallenge({challenge, ...}) with no target
          /\ heard' = [q \in Peers |->
                          IF q \in MapKeys(conns) THEN heard[q] \cup {challenge}
                          ELSE heard[q]]
          \* a signature over an earlier challenge verifies against no challenge
          \* drawn from now on: the intruder starts its session with none
          /\ known' = IF peerId = Intruder THEN {} ELSE known
    /\ UNCHANGED <<trustedKeys, entries, pending, outbox, failed, retired, trustEdits>>
    /\ UNCHANGED goState

\* room.onPeerLeave -> this.connections.delete(peerId)
PeerLeave(peerId) ==
    /\ service = "node"
    /\ peerId \in InRoom
    /\ connections' = MapDelete(connections, peerId)
    /\ failed' = failed \ {peerId}
    /\ retired' = retired \cup {Session(peerId).challenge}
    /\ heard' = [heard EXCEPT ![Reader] = IF peerId = Reader THEN {} ELSE @]
    /\ UNCHANGED <<trustedKeys, entries, pending, outbox, challengeDraws, known, trustEdits>>
    /\ UNCHANGED goState

HandleAuthResponseRecordsUntrustedKey(peerId, signature, publicKey) ==
    IF ~MapHas(connections, peerId) \/ Session(peerId).state # "challenging"
    THEN UNCHANGED <<connections, outbox, failed>>
    ELSE IF ~NaclSignDetachedVerify(Session(peerId).challenge, signature, publicKey)
    THEN /\ failed' = failed \cup {peerId}
         /\ UNCHANGED <<connections, outbox>>
    ELSE IF ~MapHas(trustedKeys, publicKey)
    THEN /\ connections' = MapSet(connections, peerId,
                               [Session(peerId) EXCEPT !.state = "untrusted",
                                                       !.publicKey = publicKey])
         /\ UNCHANGED <<outbox, failed>>
    ELSE LET conns == MapSet(connections, peerId,
                         [Session(peerId) EXCEPT !.state = "authenticated",
                                                 !.publicKey = publicKey,
                                                 !.proof = signature])
         IN /\ connections' = conns
            /\ outbox' = outbox \o SendEntriesToPeer(conns, peerId)
            /\ UNCHANGED failed

HandleAuthResponseAnyState(peerId, signature, publicKey) ==
    IF ~MapHas(connections, peerId)
    THEN UNCHANGED <<connections, outbox, failed>>
    ELSE IF ~NaclSignDetachedVerify(Session(peerId).challenge, signature, publicKey)
    THEN /\ failed' = failed \cup {peerId}
         /\ UNCHANGED <<connections, outbox>>
    ELSE IF ~MapHas(trustedKeys, publicKey)
    THEN /\ connections' = MapSet(connections, peerId,
                               [Session(peerId) EXCEPT !.state = "untrusted"])
         /\ UNCHANGED <<outbox, failed>>
    ELSE LET conns == MapSet(connections, peerId,
                         [Session(peerId) EXCEPT !.state = "authenticated",
                                                 !.publicKey = publicKey,
                                                 !.proof = signature])
         IN /\ connections' = conns
            /\ outbox' = outbox \o SendEntriesToPeer(conns, peerId)
            /\ UNCHANGED failed

HandleAuthResponseReportsFailure(peerId, signature, publicKey) ==
    IF ~MapHas(connections, peerId) \/ Session(peerId).state # "challenging"
    THEN UNCHANGED <<connections, outbox, failed>>
    ELSE IF ~NaclSignDetachedVerify(Session(peerId).challenge, signature, publicKey)
    THEN /\ failed' = failed \cup {peerId}
         /\ outbox' = Append(outbox,
                [type |-> "error", to |-> MapKeys(connections),
                 box |-> EncryptForPeer(Presence, NoKey, RandomBytes(NonceDraws)),
                 by |-> "handleAuthResponse", session |-> Session(peerId).challenge])
         /\ UNCHANGED connections
    ELSE IF ~MapHas(trustedKeys, publicKey)
    THEN /\ connections' = MapSet(connections, peerId,
                               [Session(peerId) EXCEPT !.state = "untrusted"])
         /\ UNCHANGED <<outbox, failed>>
    ELSE LET conns == MapSet(connections, peerId,
                         [Session(peerId) EXCEPT !.state = "authenticated",
                                                 !.publicKey = publicKey,
                                                 !.proof = signature])
         IN /\ connections' = conns
            /\ outbox' = outbox \o SendEntriesToPeer(conns, peerId)
            /\ UNCHANGED failed

\* handleAuthResponse(data, peerId) with data = {signature, publicKey}.
\* `proof` is history: the signature the session was authenticated on.
HandleAuthResponse(peerId, signature, publicKey) ==
    IF ~MapHas(connections, peerId) \/ Session(peerId).state # "challenging"
    THEN UNCHANGED <<connections, outbox, failed>>
    ELSE IF ~NaclSignDetachedVerify(Session(peerId).challenge, signature, publicKey)
    THEN /\ failed' = failed \cup {peerId}
         /\ UNCHANGED <<connections, outbox>>
    ELSE IF ~MapHas(trustedKeys, publicKey)
    THEN /\ connections' = MapSet(connections, peerId,
                               [Session(peerId) EXCEPT !.state = "untrusted"])
         /\ UNCHANGED <<outbox, failed>>
    ELSE LET conns == MapSet(connections, peerId,
                         [Session(peerId) EXCEPT !.state = "authenticated",
                                                 !.publicKey = publicKey,
                                                 !.proof = signature])
         IN /\ connections' = conns
            /\ outbox' = outbox \o SendEntriesToPeer(conns, peerId)
            /\ UNCHANGED failed

\* The reader answers a challenge it received: it signs it with its key and
\* sends {signature, publicKey} on the room's 'response' action, which
\* getResponse hands to handleAuthResponse.  The intruder, when in the room,
\* sees the message.
ReaderResponse(challenge) ==
    /\ service = "node"
    /\ Reader \in InRoom
    /\ challenge \in heard[Reader]
    /\ \E k \in Holds(Reader) :
          /\ HandleAuthResponse(Reader, [signer |-> k, msg |-> challenge], k)
          /\ known' = IF Intruder \in InRoom
                      THEN known \cup {[signer |-> k, msg |-> challenge]}
                      ELSE known
    /\ Len(outbox') <= MaxOutbox
    /\ heard' = [heard EXCEPT ![Reader] = @ \ {challenge}]
    /\ UNCHANGED <<trustedKeys, entries, pending, challengeDraws, retired, trustEdits>>
    /\ UNCHANGED goState

\* The signatures the intruder can put in a response: its own keys over a
\* challenge it has received, or a signature it has seen on the room.
CanSend == {[signer |-> k, msg |-> c] : k \in Holds(Intruder), c \in heard[Intruder]}
              \cup known

IntruderResponse(signature, publicKey) ==
    /\ service = "node"
    /\ Intruder \in InRoom
    /\ signature \in CanSend
    /\ HandleAuthResponse(Intruder, signature, publicKey)
    /\ Len(outbox') <= MaxOutbox
    /\ UNCHANGED <<trustedKeys, entries, pending, challengeDraws, heard, known,
                   retired, trustEdits>>
    /\ UNCHANGED goState

\* A 'response' message from a peerId that has left the room (sent before the
\* leave, delivered after it; it answers the challenge of an ended session):
\* getResponse hands it to handleAuthResponse.
LateResponse(peerId, signature, publicKey) ==
    /\ service = "node"
    /\ peerId \notin InRoom
    /\ signature.signer \in Holds(peerId)
    /\ signature.msg \in retired
    /\ HandleAuthResponse(peerId, signature, publicKey)
    /\ UNCHANGED <<trustedKeys, entries, pending, challengeDraws, heard, known,
                   retired, trustEdits>>
    /\ UNCHANGED goState

\* A field of a 'response' message as the decoding finds it: absent, not
\* base64, base64 of the wrong number of bytes, or well formed.
Fields == {"missing", "notbase64", "short", "wellformed"}

\* naclUtil.decodeBase64(field): throws on what is not base64 (a missing field
\* included)
DecodeBase64Throws(field) == field \in {"missing", "notbase64"}

\* nacl.sign.detached.verify: throws on a signature or a public key of the
\* wrong size
VerifyThrows(signature, publicKey) == signature = "short" \/ publicKey = "short"

\* handleAuthResponse(data, peerId) with a data whose fields do not decode to
\* a signature and a key: without a session in 'challenging' it returns as
\* unexpected; otherwise the exception of the decoding or of the size check is
\* caught and logged.
MalformedResponse(peerId, signature, publicKey) ==
    /\ service = "node"
    /\ peerId \in InRoom
    /\ signature # "wellformed" \/ publicKey # "wellformed"
    /\ \/ Session(peerId).state # "challenging"
       \/ DecodeBase64Throws(signature)
       \/ DecodeBase64Throws(publicKey)
       \/ VerifyThrows(signature, publicKey)
    /\ dropped' = dropped \cup {peerId}
    /\ UNCHANGED <<service, trustedKeys, entries, connections, pending, outbox,
                   challengeDraws, heard, known, failed, retired, trustEdits,
                   startupState, nostrState, offerState, goDropped, goPanicked,
                   goOrphans>>
    /\ UNCHANGED <<goTrustedUsers, goEntries, goConnections, goDataChannels, goSent,
                   goPending, goPeerCount, goChallengeDraws, goHeard, goFailed,
                   goTrustEdits>>

NextIdRepeatsLast(log) == Len(log)

\* id: this.entries.length + 1  /  ID: len(s.entries) + 1
NextId(log) == Len(log) + 1

\* POST /api/entries, up to `await this.saveEntries()`
PostApiEntries ==
    /\ service = "node"
    /\ Len(entries) < MaxEntries
    /\ entries' = Append(entries, NextId(entries))
    /\ pending' = pending \cup {NextId(entries)}
    /\ UNCHANGED <<trustedKeys, connections, outbox, challengeDraws, heard, known,
                   failed, retired, trustEdits>>
    /\ UNCHANGED goState

AdminAddEntryPrepends ==
    /\ service = "node"
    /\ Len(entries) < MaxEntries
    /\ entries' = <<NextId(entries)>> \o entries
    /\ pending' = pending \cup {NextId(entries)}
    /\ UNCHANGED <<trustedKeys, connections, outbox, challengeDraws, heard, known,
                   failed, retired, trustEdits>>
    /\ UNCHANGED goState

\* handleAdminMessage, case 'add_entry', up to `await this.saveEntries()`
AdminAddEntry ==
    /\ service = "node"
    /\ Len(entries) < MaxEntries
    /\ entries' = Append(entries, NextId(entries))
    /\ pending' = pending \cup {NextId(entries)}
    /\ UNCHANGED <<trustedKeys, connections, outbox, challengeDraws, heard, known,
                   failed, retired, trustEdits>>
    /\ UNCHANGED goState

\* saveEntries resolved: the add operation resumes and calls broadcastEntry(entry)
SaveEntriesResolved(entry) ==
    /\ service = "node"
    /\ entry \in pending
    /\ pending' = pending \ {entry}
    /\ outbox' = outbox \o BroadcastEntry(entry)
    /\ Len(outbox') <= MaxOutbox
    /\ UNCHANGED <<trustedKeys, entries, connections, challengeDraws, heard, known,
                   failed, retired, trustEdits>>
    /\ UNCHANGED goState

\* saveEntries rejected (fs.writeFile failed): the add operation ends at the
\* await; the entry stays in this.entries and broadcastEntry is not called.
SaveEntriesRejected(entry) ==
    /\ service = "node"
    /\ entry \in pending
    /\ pending' = pending \ {entry}
    /\ UNCHANGED <<trustedKeys, entries, connections, outbox, challengeDraws, heard,
                   known, failed, retired, trustEdits>>
    /\ UNCHANGED goState

\* POST /api/trusted
PostApiTrusted(publicKey, boxPublicKey) ==
    /\ service = "node"
    /\ trustEdits < MaxTrustEdits
    /\ trustEdits' = trustEdits + 1
    /\ trustedKeys' = MapSet(trustedKeys, publicKey, boxPublicKey)
    /\ UNCHANGED <<entries, connections, pending, outbox, challengeDraws, heard,
                   known, failed, retired>>
    /\ UNCHANGED goState

\* DELETE /api/trusted/:key
DeleteApiTrusted(key) ==
    /\ service = "node"
    /\ trustEdits < MaxTrustEdits
    /\ trustEdits' = trustEdits + 1
    /\ trustedKeys' = MapDelete(trustedKeys, key)
    /\ UNCHANGED <<entries, connections, pending, outbox, challengeDraws, heard,
                   known, failed, retired>>
    /\ UNCHANGED goState

AnnounceCount == Len(SelectSeq(outbox, LAMBDA m : m.type = "announce"))

\* startPresenceBroadcast: one run of broadcast()
PresenceBroadcastToReader ==
    /\ service = "node"
    /\ AnnounceCount < MaxAnnounce
    /\ outbox' = Append(outbox,
          SendAnnouncement(connections,
              EncryptForPeer(Presence, "B1", RandomBytes(NonceDraws))))
    /\ Len(outbox') <= MaxOutbox
    /\ UNCHANGED <<trustedKeys, entries, connections, pending, challengeDraws, heard,
                   known, failed, retired, trustEdits>>
    /\ UNCHANGED goState

PresenceBroadcast ==
    /\ service = "node"
    /\ AnnounceCount < MaxAnnounce
    /\ outbox' = outbox \o
          [i \in 1..Len(trustedKeys) |->
              SendAnnouncement(connections,
                  EncryptForPeer(Presence, trustedKeys[i][2],
                      RandomBytes(NonceDraws + i - 1)))]
    /\ Len(outbox') <= MaxOutbox
    /\ UNCHANGED <<trustedKeys, entries, connections, pending, challengeDraws, heard,
                   known, failed, retired, trustEdits>>
    /\ UNCHANGED goState

\* ============================================================ Go service
\* src/go-service/main.go.  Every reader has its own data channel: the
\* service sends with dc.SendText on the channel of one peer, and entries go
\* out as plain JSON.  A peer connection carries one data channel at a time.

\* conn.Challenge == nil
NoChallenge == 0

GoSignatures == [signer : Keys, msg : 1..MaxGoChallenges]

GoPeerIDs == 1..MaxGoConns

\* A Go map: a function on the set of its keys.
GoMapSet(m, k, v) == [x \in DOMAIN m \cup {k} |-> IF x = k THEN v ELSE m[x]]

GoMapDelete(m, k) == [x \in DOMAIN m \ {k} |-> m[x]]

\* rand.Read(challenge): a value never drawn before
GoRandRead(draws) == draws + 1

Ed25519Verify(publicKey, message, signature) ==
    /\ signature.signer = publicKey
    /\ signature.msg = message

\* dc.SendText(data) on the channel of peerID: it reaches the peer when the
\* channel is open.
GoSendText(sent, peerID, messages) ==
    IF peerID \in DOMAIN goDataChannels /\ goDataChannels[peerID] = "open"
    THEN [sent EXCEPT ![peerID] = @ \o messages]
    ELSE sent

\* sendEntriesToPeer(peerID): the messages it sends, given the connections it reads
GoSendEntriesToPeer(conns, peerID) ==
    IF \/ peerID \notin DOMAIN goDataChannels
       \/ peerID \notin DOMAIN conns
       \/ ~conns[peerID].Authenticated
    THEN << >>
    ELSE [i \in 1..Len(goEntries) |->
            [type |-> "entry", entry |-> goEntries[i], by |-> "sendEntriesToPeer"]]

\* broadcastEntry(entry): the channels after it has run
GoBroadcastEntry(entry) ==
    [peerID \in DOMAIN goSent |->
        IF goConnections[peerID].Authenticated
        THEN GoSendText(goSent, peerID,
                 <<[type |-> "entry", entry |-> entry, by |-> "broadcastEntry"]>>)[peerID]
        ELSE goSent[peerID]]

GoIdle ==
    /\ goTrustedUsers = {}
    /\ goEntries = << >>
    /\ goConnections = [x \in {} |-> 0]
    /\ goDataChannels = [x \in {} |-> 0]
    /\ goSent = [x \in {} |-> 0]
    /\ goPending = {}
    /\ goPeerCount = 0
    /\ goChallengeDraws = 0
    /\ goHeard = [p \in Peers |-> {}]
    /\ goFailed = {}
    /\ goTrustEdits = 0

\* After Initialize(): trusted.json is absent or holds one reader; entries.json
\* is absent, so the log is the service's first entry.
GoInit ==
    /\ goTrustedUsers \in {{}, {"K1"}}
    /\ goEntries = <<1>>
    /\ goConnections = [x \in {} |-> 0]
    /\ goDataChannels = [x \in {} |-> 0]
    /\ goSent = [x \in {} |-> 0]
    /\ goPending = {}
    /\ goPeerCount = 0
    /\ goChallengeDraws = 0
    /\ goHeard = [p \in Peers |-> {}]
    /\ goFailed = {}
    /\ goTrustEdits = 0

\* handleWebSocketSignaling up to its signaling loop: peerID is the clock's
\* nanosecond count, here the number of the connection.  `peer` is history:
\* the process at the other end.
GoHandleWebSocketSignaling(peer) ==
    /\ service = "go"
    /\ goPeerCount < MaxGoConns
    /\ goPeerCount' = goPeerCount + 1
    /\ goConnections' = GoMapSet(goConnections, goPeerCount + 1,
                            [State |-> "connecting", PublicKey |-> NoKey,
                             Challenge |-> NoChallenge, Authenticated |-> FALSE,
                             peer |-> peer, proof |-> NoSignature])
    /\ goSent' = GoMapSet(goSent, goPeerCount + 1, << >>)
    /\ UNCHANGED <<goTrustedUsers, goEntries, goDataChannels, goPending,
                   goChallengeDraws, goHeard, goFailed, goTrustEdits>>
    /\ UNCHANGED nodeState

\* peerConnection.OnDataChannel callback
GoOnDataChannel(peerID) ==
    /\ service = "go"
    /\ peerID \in DOMAIN goConnections
    /\ peerID \notin DOMAIN goDataChannels
    /\ goDataChannels' = GoMapSet(goDataChannels, peerID, "connecting")
    /\ goConnections' = [goConnections EXCEPT ![peerID].State = "connected"]
    /\ UNCHANGED <<goTrustedUsers, goEntries, goSent, goPending, goPeerCount,
                   goChallengeDraws, goHeard, goFailed, goTrustEdits>>
    /\ UNCHANGED nodeState

\* dc.OnOpen callback -> sendAuthChallenge(peerID, dc)
GoSendAuthChallenge(peerID) ==
    /\ service = "go"
    /\ peerID \in DOMAIN goDataChannels
    /\ goDataChannels[peerID] = "connecting"
    /\ goChallengeDraws < MaxGoChallenges
    /\ Len(goSent[peerID]) < MaxGoSent
    /\ LET challenge == GoRandRead(goChallengeDraws)
           channels == [goDataChannels EXCEPT ![peerID] = "open"]
       IN /\ goChallengeDraws' = goChallengeDraws + 1
          /\ goDataChannels' = channels
          /\ goConnections' = [goConnections EXCEPT ![peerID].Challenge = challenge]
          /\ goSent' = [goSent EXCEPT ![peerID] =
                           Append(@, [type |-> "challenge", entry |-> challenge,
                                      by |-> "sendAuthChallenge"])]
          /\ goHeard' = [goHeard EXCEPT ![goConnections[peerID].peer] = @ \cup {challenge}]
    /\ UNCHANGED <<goTrustedUsers, goEntries, goPending, goPeerCount, goFailed,
                   goTrustEdits>>
    /\ UNCHANGED nodeState

\* handleAuthResponse(peerID, msg) with msg = {signature, publicKey}.
\* `proof` is history: the signature the connection was authenticated on.
GoHandleAuthResponse(peerID, signature, publicKey) ==
    IF peerID \notin DOMAIN goConnections \/ goConnections[peerID].Challenge = NoChallenge
    THEN UNCHANGED <<goConnections, goSent, goFailed>>
    ELSE IF ~Ed25519Verify(publicKey, goConnections[peerID].Challenge, signature)
    THEN /\ goFailed' = goFailed \cup {peerID}
         /\ UNCHANGED <<goConnections, goSent>>
    ELSE IF publicKey \notin goTrustedUsers
    THEN /\ goConnections' = [goConnections EXCEPT ![peerID].State = "untrusted"]
         /\ UNCHANGED <<goSent, goFailed>>
    ELSE LET conns == [goConnections EXCEPT ![peerID].State = "authenticated",
                                            ![peerID].PublicKey = publicKey,
                                            ![peerID].Authenticated = TRUE,
                                            ![peerID].proof = signature]
         IN /\ goConnections' = conns
            /\ goSent' = GoSendText(goSent, peerID, GoSendEntriesToPeer(conns, peerID))
            /\ UNCHANGED goFailed

\* The reader answers the challenge it received on its channel.
GoReaderResponse(peerID) ==
    /\ service = "go"
    /\ peerID \in DOMAIN goDataChannels
    /\ goDataChannels[peerID] = "open"
    /\ goConnections[peerID].peer = Reader
    /\ goConnections[peerID].Challenge \in goHeard[Reader]
    /\ \E k \in Holds(Reader) :
          GoHandleAuthResponse(peerID,
              [signer |-> k, msg |-> goConnections[peerID].Challenge], k)
    /\ Len(goSent'[peerID]) <= MaxGoSent
    /\ goHeard' = [goHeard EXCEPT ![Reader] = @ \ {goConnections[peerID].Challenge}]
    /\ UNCHANGED <<goTrustedUsers, goEntries, goDataChannels, goPending, goPeerCount,
                   goChallengeDraws, goTrustEdits>>
    /\ UNCHANGED nodeState

\* Any other program sends a 'response' on its channel: a signature by a key
\* it holds over a challenge it has received, under any claimed key.
GoIntruderResponse(peerID, signature, publicKey) ==
    /\ service = "go"
    /\ peerID \in DOMAIN goDataChannels
    /\ goDataChannels[peerID] = "open"
    /\ goConnections[peerID].peer = Intruder
    /\ signature.signer \in Holds(Intruder)
    /\ signature.msg \in goHeard[Intruder]
    /\ GoHandleAuthResponse(peerID, signature, publicKey)
    /\ Len(goSent'[peerID]) <= MaxGoSent
    /\ UNCHANGED <<goTrustedUsers, goEntries, goDataChannels, goPending, goPeerCount,
                   goChallengeDraws, goHeard, goTrustEdits>>
    /\ UNCHANGED nodeState

\* handleEntryRequest(peerID), on a 'request' message
GoHandleEntryRequest(peerID) ==
    /\ service = "go"
    /\ peerID \in DOMAIN goDataChannels
    /\ goDataChannels[peerID] = "open"
    /\ goSent' = IF goConnections[peerID].Authenticated
                 THEN GoSendText(goSent, peerID, GoSendEntriesToPeer(goConnections, peerID))
                 ELSE goSent
    /\ Len(goSent'[peerID]) <= MaxGoSent
    /\ UNCHANGED <<goTrustedUsers, goEntries, goConnections, goDataChannels, goPending,
                   goPeerCount, goChallengeDraws, goHeard, goFailed, goTrustEdits>>
    /\ UNCHANGED nodeState

\* A data-channel message that is no well-formed 'response' or 'request':
\* not JSON, of another type, or a 'response' whose fields are as in Fields.
GoMalformedData ==
    {[json |-> FALSE, type |-> "", signature |-> "missing", publicKey |-> "missing"],
     [json |-> TRUE, type |-> "hello", signature |-> "missing", publicKey |-> "missing"]}
        \cup {[json |-> TRUE, type |-> "response", signature |-> f, publicKey |-> g] :
                f \in Fields, g \in Fields \ {"wellformed"}}
        \cup {[json |-> TRUE, type |-> "response", signature |-> f,
               publicKey |-> "wellformed"] : f \in Fields \ {"wellformed"}}

\* base64.StdEncoding.DecodeString(pubKeyStr) with its error dropped: the bytes
\* decoded, which are 32 for a well-formed key only
DecodesToKeySize(field) == field = "wellformed"

\* handleDataChannelMessage(peerID, data) on such a message: what does not
\* parse is logged and dropped, an unknown type matches no case, and a
\* 'response' goes to handleAuthResponse, where ed25519.Verify panics on a
\* public key that is not 32 bytes and returns false on a signature that is
\* not 64 bytes.
GoMalformedMessage(peerID, data) ==
    /\ service = "go"
    /\ peerID \in DOMAIN goDataChannels
    /\ goDataChannels[peerID] = "open"
    /\ IF /\ data.json
          /\ data.type = "response"
          /\ goConnections[peerID].Challenge # NoChallenge
       THEN IF ~DecodesToKeySize(data.publicKey)
            THEN /\ goPanicked' = TRUE
                 /\ UNCHANGED <<goDropped, goFailed>>
            ELSE /\ goFailed' = goFailed \cup {peerID}
                 /\ goDropped' = goDropped \cup {peerID}
                 /\ UNCHANGED goPanicked
       ELSE /\ goDropped' = goDropped \cup {peerID}
            /\ UNCHANGED <<goPanicked, goFailed>>
    /\ UNCHANGED <<service, goTrustedUsers, goEntries, goConnections, goDataChannels,
                   goSent, goPending, goPeerCount, goChallengeDraws, goHeard,
                   goTrustEdits, startupState, nostrState, offerState,
                   dropped, goOrphans>>
    /\ UNCHANGED <<trustedKeys, entries, connections, pending, outbox, challengeDraws,
                   heard, known, failed, retired, trustEdits>>

\* dc.OnClose callback
GoOnClose(peerID) ==
    /\ service = "go"
    /\ peerID \in DOMAIN goDataChannels
    /\ goDataChannels' = GoMapDelete(goDataChannels, peerID)
    /\ goConnections' = [goConnections EXCEPT ![peerID].State = "disconnected"]
    /\ UNCHANGED <<goTrustedUsers, goEntries, goSent, goPending, goPeerCount,
                   goChallengeDraws, goHeard, goFailed, goTrustEdits>>
    /\ UNCHANGED nodeState

\* handleWebSocketSignaling after its signaling loop: cleanup
GoCleanup(peerID) ==
    /\ service = "go"
    /\ peerID \in DOMAIN goConnections
    /\ goConnections' = GoMapDelete(goConnections, peerID)
    /\ goDataChannels' = GoMapDelete(goDataChannels, peerID)
    /\ goSent' = GoMapDelete(goSent, peerID)
    /\ goFailed' = goFailed \ {peerID}
    /\ goHeard' = [goHeard EXCEPT ![Reader] =
                      IF goConnections[peerID].peer = Reader
                      THEN @ \ {goConnections[peerID].Challenge} ELSE @]
    /\ UNCHANGED <<goTrustedUsers, goEntries, goPending, goPeerCount,
                   goChallengeDraws, goTrustEdits>>
    /\ UNCHANGED nodeState

\* What a late callback leaves unchanged: everything but the process's end
\* and the channels that outlive their record.
LateCallbackFrame ==
    /\ UNCHANGED <<service, trustedKeys, entries, connections, pending, outbox,
                   challengeDraws, heard, known, failed, retired, trustEdits,
                   startupState, nostrState, offerState, dropped, goDropped>>
    /\ UNCHANGED <<goTrustedUsers, goEntries, goConnections, goDataChannels, goSent,
                   goPending, goPeerCount, goHeard, goFailed, goTrustEdits>>

\* handleWebSocketSignaling after its signaling loop, seen with what follows
\* it: the cleanup deletes the record and the map's entry for the channel,
\* and only then the deferred peerConnection.Close() runs.  The channel
\* object and the callbacks registered on it are still there: connecting
\* (OnOpen to come) or open.
GoCleanupBeforeClose(peerID) ==
    /\ service = "go"
    /\ peerID \in DOMAIN goConnections
    /\ goConnections' = GoMapDelete(goConnections, peerID)
    /\ goDataChannels' = GoMapDelete(goDataChannels, peerID)
    /\ goSent' = GoMapDelete(goSent, peerID)
    /\ goFailed' = goFailed \ {peerID}
    /\ goHeard' = [goHeard EXCEPT ![Reader] =
                      IF goConnections[peerID].peer = Reader
                      THEN @ \ {goConnections[peerID].Challenge} ELSE @]
    /\ goOrphans' = IF peerID \in DOMAIN goDataChannels
                    THEN GoMapSet(goOrphans, peerID, goDataChannels[peerID])
                    ELSE goOrphans
    /\ UNCHANGED <<goTrustedUsers, goEntries, goPending, goPeerCount,
                   goChallengeDraws, goTrustEdits>>
    /\ UNCHANGED <<service, trustedKeys, entries, connections, pending, outbox,
                   challengeDraws, heard, known, failed, retired, trustEdits,
                   startupState, nostrState, offerState, dropped, goDropped, goPanicked>>

\* dc.OnOpen callback -> sendAuthChallenge(peerID, dc) after the cleanup:
\* s.connections[peerID] is nil, and s.connections[peerID].Challenge =
\* challenge writes through it.  The panic ends the process.
GoLateOnOpen(peerID) ==
    /\ service = "go"
    /\ peerID \in DOMAIN goOrphans
    /\ goOrphans[peerID] = "connecting"
    /\ goChallengeDraws < MaxGoChallenges
    /\ goChallengeDraws' = GoRandRead(goChallengeDraws)
    /\ goOrphans' = [goOrphans EXCEPT ![peerID] = "dereferenced"]
    /\ goPanicked' = TRUE
    /\ LateCallbackFrame

\* dc.OnMessage callback -> handleDataChannelMessage(peerID, data) after the
\* cleanup: handleAuthResponse and handleEntryRequest find conn == nil and
\* return.
GoLateOnMessage(peerID, type) ==
    /\ service = "go"
    /\ peerID \in DOMAIN goOrphans
    /\ goOrphans[peerID] = "open"
    /\ type \in {"response", "request"}
    /\ UNCHANGED <<goChallengeDraws, goOrphans, goPanicked>>
    /\ LateCallbackFrame

\* dc.OnClose callback after the cleanup: delete(s.dataChannels, peerID) finds
\* nothing, and s.connections[peerID].State = "disconnected" writes through
\* the nil record.  The panic ends the process.
GoLateOnClose(peerID) ==
    /\ service = "go"
    /\ peerID \in DOMAIN goOrphans
    /\ goOrphans[peerID] \in {"connecting", "open"}
    /\ goOrphans' = [goOrphans EXCEPT ![peerID] = "dereferenced"]
    /\ goPanicked' = TRUE
    /\ UNCHANGED goChallengeDraws
    /\ LateCallbackFrame

\* handleAddEntry up to s.mu.Unlock()
GoHandleAddEntry ==
    /\ service = "go"
    /\ Len(goEntries) < MaxEntries
    /\ goEntries' = Append(goEntries, NextId(goEntries))
    /\ goPending' = goPending \cup {NextId(goEntries)}
    /\ UNCHANGED <<goTrustedUsers, goConnections, goDataChannels, goSent, goPeerCount,
                   goChallengeDraws, goHeard, goFailed, goTrustEdits>>
    /\ UNCHANGED nodeState

\* handleAddEntry after s.mu.Unlock(): saveEntries (an error is logged only),
\* then broadcastEntry(entry)
GoHandleAddEntryBroadcast(entry) ==
    /\ service = "go"
    /\ entry \in goPending
    /\ goPending' = goPending \ {entry}
    /\ goSent' = GoBroadcastEntry(entry)
    /\ \A peerID \in DOMAIN goSent : Len(goSent'[peerID]) <= MaxGoSent
    /\ UNCHANGED <<goTrustedUsers, goEntries, goConnections, goDataChannels,
                   goPeerCount, goChallengeDraws, goHeard, goFailed, goTrustEdits>>
    /\ UNCHANGED nodeState

\* handleAddTrusted
GoHandleAddTrusted(publicKey) ==
    /\ service = "go"
    /\ goTrustEdits < MaxGoTrustEdits
    /\ goTrustEdits' = goTrustEdits + 1
    /\ goTrustedUsers' = goTrustedUsers \cup {publicKey}
    /\ UNCHANGED <<goEntries, goConnections, goDataChannels, goSent, goPending,
                   goPeerCount, goChallengeDraws, goHeard, goFailed>>
    /\ UNCHANGED nodeState

\* handleRemoveTrusted
GoHandleRemoveTrusted(key) ==
    /\ service = "go"
    /\ goTrustEdits < MaxGoTrustEdits
    /\ goTrustEdits' = goTrustEdits + 1
    /\ goTrustedUsers' = goTrustedUsers \ {key}
    /\ UNCHANGED <<goEntries, goConnections, goDataChannels, goSent, goPending,
                   goPeerCount, goChallengeDraws, goHeard, goFailed>>
    /\ UNCHANGED nodeState

\* ================================================ Nostr-signaled Go service
\* The Go service that publishes one WebRTC offer over Nostr relays and serves
\* the single data channel of that offer.  A data-channel message is what
\* json.Unmarshal makes of it: not parseable, or an object with a type; a
\* response carries a signature.
NostrSignatures == [signer : Keys, msg : 1..2]

NostrMessages ==
    {[json |-> FALSE, type |-> "", signature |-> NoSignature]}
        \cup [json : {TRUE}, type : {"request", "hello"}, signature : {NoSignature}]
        \cup [json : {TRUE}, type : {"response"},
              signature : NostrSignatures \cup {NoSignature}]

NostrNewEntriesLoaded == <<1, 2>>

\* NewTrustDiaryService: entries: []DiaryEntry{}; nothing in the program
\* assigns or appends to s.entries afterwards.
NostrNewEntries == << >>

\* NewTrustDiaryService and Initialize: the offer is created and published,
\* its data channel is not open yet.
NostrNew ==
    /\ nostrRemote = NoKey
    /\ nostrChannel = "connecting"
    /\ nostrEntries = NostrNewEntries
    /\ nostrSent = << >>
    /\ nostrInbox = << >>
    /\ nostrDraws = 0

\* The Nostr-signaled service does not run.
NostrIdle ==
    /\ nostrRemote = NoKey
    /\ nostrChannel = "connecting"
    /\ nostrEntries = << >>
    /\ nostrSent = << >>
    /\ nostrInbox = << >>
    /\ nostrDraws = 0

\* handleNostrAnswer / handleSubmitAnswer: an answer that names the current
\* offer becomes the remote description, whoever sent it; a second answer
\* fails in SetRemoteDescription and is logged.
NostrHandleAnswer(peer, offerMatches) ==
    /\ service = "nostr"
    /\ nostrChannel = "connecting"
    /\ nostrRemote' = IF offerMatches /\ nostrRemote = NoKey THEN peer ELSE nostrRemote
    /\ UNCHANGED <<nostrChannel, nostrEntries, nostrSent, nostrInbox, nostrDraws>>
    /\ UNCHANGED <<trustedKeys, entries, connections, pending, outbox, challengeDraws,
                   heard, known, failed, retired, trustEdits, startupState,
                   decodeState,
                   offerState>>
    /\ UNCHANGED <<service, goTrustedUsers, goEntries, goConnections, goDataChannels,
                   goSent, goPending, goPeerCount, goChallengeDraws, goHeard, goFailed,
                   goTrustEdits>>

\* sendEntries(): one 'entry' message per entry of the log, in log order;
\* `after` is the number of messages handled when it is sent.
NostrSendEntries(log, handled) ==
    [i \in 1..Len(log) |-> [type |-> "entry", entry |-> log[i], after |-> handled]]

\* sendAuthChallenge(): a fresh challenge is sent; the service keeps no copy.
NostrSendAuthChallenge(draws, handled) ==
    <<[type |-> "challenge", challenge |-> GoRandRead(draws), after |-> handled]>>

\* dc.OnOpen: the channel of the accepted answer opens and the challenge is sent
NostrOnOpen ==
    /\ service = "nostr"
    /\ nostrRemote # NoKey
    /\ nostrChannel = "connecting"
    /\ nostrChannel' = "open"
    /\ nostrSent' = nostrSent \o NostrSendAuthChallenge(nostrDraws, Len(nostrInbox))
    /\ nostrDraws' = nostrDraws + 1
    /\ UNCHANGED <<nostrRemote, nostrEntries, nostrInbox>>
    /\ UNCHANGED <<trustedKeys, entries, connections, pending, outbox, challengeDraws,
                   heard, known, failed, retired, trustEdits, startupState,
                   decodeState,
                   offerState>>
    /\ UNCHANGED <<service, goTrustedUsers, goEntries, goConnections, goDataChannels,
                   goSent, goPending, goPeerCount, goChallengeDraws, goHeard, goFailed,
                   goTrustEdits>>

\* dc.OnMessage -> handleDataChannelMessage(data): what does not parse is
\* dropped; 'response' is logged; 'request' calls sendEntries(); any other type
\* matches no case.
NostrHandleDataChannelMessage(msg) ==
    /\ service = "nostr"
    /\ nostrChannel = "open"
    /\ Len(nostrInbox) < MaxNostrMessages
    /\ nostrInbox' = Append(nostrInbox, msg)
    /\ nostrSent' = IF msg.json /\ msg.type = "request"
                    THEN nostrSent \o NostrSendEntries(nostrEntries, Len(nostrInbox) + 1)
                    ELSE nostrSent
    /\ UNCHANGED <<nostrRemote, nostrChannel, nostrEntries, nostrDraws>>
    /\ UNCHANGED <<trustedKeys, entries, connections, pending, outbox, challengeDraws,
                   heard, known, failed, retired, trustEdits, startupState,
                   decodeState,
                   offerState>>
    /\ UNCHANGED <<service, goTrustedUsers, goEntries, goConnections, goDataChannels,
                   goSent, goPending, goPeerCount, goChallengeDraws, goHeard, goFailed,
                   goTrustEdits>>

\* The peer closes the data channel; the service has no handler for it.
NostrChannelClose ==
    /\ service = "nostr"
    /\ nostrChannel = "open"
    /\ nostrChannel' = "closed"
    /\ UNCHANGED <<nostrRemote, nostrEntries, nostrSent, nostrInbox, nostrDraws>>
    /\ UNCHANGED <<trustedKeys, entries, connections, pending, outbox, challengeDraws,
                   heard, known, failed, retired, trustEdits, startupState,
                   decodeState,
                   offerState>>
    /\ UNCHANGED <<service, goTrustedUsers, goEntries, goConnections, goDataChannels,
                   goSent, goPending, goPeerCount, goChallengeDraws, goHeard, goFailed,
                   goTrustEdits>>

\* ================================== Nostr services with a 30-second offer
\* src/go-nostr-service/main-encrypted.go ("encrypted") and the simplified
\* service of ARCHITECTURE.md ("simple").  run() makes a new peer connection
\* and a new offer every 30 seconds; answers arrive as Nostr events on the
\* subscription's goroutine.  The n-th peer connection is the number n, and
\* the offer made for it has id n.
NostrPubKeys == {"npub1", "npub2"}

\* trusted-readers.json: absent, or a map of readers by name
TrustedReadersFiles ==
    {[x \in {} |-> 0],
     [name \in {"ann"} |-> [NostrPubKey |-> "npub1"]],
     [name \in {"ann", "bob"} |-> [NostrPubKey |-> IF name = "ann" THEN "npub1" ELSE "npub2"]]}

\* loadTrustedReaders(): the service's own key as "tom", then json.Unmarshal
\* of the file into the same map
LoadTrustedReaders(file) ==
    [name \in {"tom"} \cup DOMAIN file |->
        IF name \in DOMAIN file THEN file[name] ELSE [NostrPubKey |-> "self"]]

\* addTrustedReaders(): s.trustedReaders["*"] = "Any Reader"
AddTrustedReaders == [pubkey \in {"*"} |-> "Any Reader"]

\* handleWebRTCAnswer (encrypted): for _, r := range s.trustedReaders
\* { if r.NostrPubKey == event.PubKey ... }
EncIsTrustedReader(pubKey) ==
    \E name \in DOMAIN trustedReaders : trustedReaders[name].NostrPubKey = pubKey

\* handleWebRTCAnswer (simple): name, trusted := s.trustedReaders[event.PubKey]
SimpleIsTrustedReader(pubKey) == pubKey \in DOMAIN trustedReaders

\* pc.SetRemoteDescription(answer) on s.peerConnection: a connection takes
\* one answer, a second one is an error.
SetRemoteDescription(answer) ==
    IF remoteDescription[peerConnection] = NoAnswer
    THEN /\ remoteDescription' = [remoteDescription EXCEPT ![peerConnection] = answer]
         /\ answerLog' = [from |-> answer.from, offer |-> answer.offer,
                          current |-> answer.current, line |-> "established"]
    ELSE /\ UNCHANGED remoteDescription
         /\ answerLog' = [from |-> answer.from, offer |-> answer.offer,
                          current |-> answer.current, line |-> "failed"]

OfferFrame ==
    /\ UNCHANGED <<service, trustedKeys, entries, connections, pending, outbox,
                   challengeDraws, heard, known, failed, retired, trustEdits,
                   startupState, nostrState, decodeState>>
    /\ UNCHANGED <<goTrustedUsers, goEntries, goConnections, goDataChannels, goSent,
                   goPending, goPeerCount, goChallengeDraws, goHeard, goFailed,
                   goTrustEdits>>

\* createAndPublishOffer up to s.peerConnection = pc (and s.dataChannel):
\* the new connection is in place, s.offerID is still the previous offer's.
CreatePeerConnection ==
    /\ service \in {"encrypted", "simple"}
    /\ runStep = "asleep"
    /\ peerConnection < MaxOffers
    /\ peerConnection' = peerConnection + 1
    /\ runStep' = "created"
    /\ UNCHANGED <<trustedReaders, offerID, remoteDescription, answerLog>>
    /\ OfferFrame

\* createAndPublishOffer from s.currentOffer = ... on: s.offerID is set and
\* the offer is published; run() sleeps.
PublishOffer ==
    /\ service \in {"encrypted", "simple"}
    /\ runStep = "created"
    /\ offerID' = peerConnection
    /\ runStep' = "asleep"
    /\ UNCHANGED <<trustedReaders, peerConnection, remoteDescription, answerLog>>
    /\ OfferFrame

\* createAndPublishOffer returns an error of CreateDataChannel, CreateOffer or
\* SetLocalDescription: run() logs it and sleeps, s.offerID is not updated.
CreateOfferFails ==
    /\ service \in {"encrypted", "simple"}
    /\ runStep = "created"
    /\ runStep' = "asleep"
    /\ UNCHANGED <<trustedReaders, peerConnection, offerID, remoteDescription, answerLog>>
    /\ OfferFrame

\* handleWebRTCAnswer(event) of the encrypted service: the event is from
\* pubKey, its content opens with box.Open or not, and names an offer.
EncHandleWebRTCAnswer(pubKey, decrypts, offer) ==
    /\ service = "encrypted"
    /\ IF ~EncIsTrustedReader(pubKey)
       THEN /\ answerLog' = [from |-> pubKey, offer |-> offer, current |-> offerID,
                             line |-> "untrusted"]
            /\ UNCHANGED remoteDescription
       ELSE IF ~decrypts
       THEN /\ answerLog' = [from |-> pubKey, offer |-> offer, current |-> offerID,
                             line |-> "undecryptable"]
            /\ UNCHANGED remoteDescription
       ELSE IF offer # offerID
       THEN /\ answerLog' = [from |-> pubKey, offer |-> offer, current |-> offerID,
                             line |-> "different offer"]
            /\ UNCHANGED remoteDescription
       ELSE SetRemoteDescription([offer |-> offer, from |-> pubKey,
                                  decrypts |-> decrypts, current |-> offerID])
    /\ UNCHANGED <<trustedReaders, peerConnection, offerID, runStep>>
    /\ OfferFrame

\* handleWebRTCAnswer(event) of the simplified service: the content is plain.
SimpleHandleWebRTCAnswer(pubKey, offer) ==
    /\ service = "simple"
    /\ IF ~SimpleIsTrustedReader(pubKey)
       THEN /\ answerLog' = [from |-> pubKey, offer |-> offer, current |-> offerID,
                             line |-> "untrusted"]
            /\ UNCHANGED remoteDescription
       ELSE IF offer # offerID
       THEN /\ answerLog' = [from |-> pubKey, offer |-> offer, current |-> offerID,
                             line |-> "different offer"]
            /\ UNCHANGED remoteDescription
       ELSE SetRemoteDescription([offer |-> offer, from |-> pubKey,
                                  decrypts |-> FALSE, current |-> offerID])
    /\ UNCHANGED <<trustedReaders, peerConnection, offerID, runStep>>
    /\ OfferFrame

\* ======================================================= identity at startup
\* loadIdentity (Node) and loadOrGenerateIdentity (Go) over the runs of a
\* service on one data directory.  The n-th key pair generated is the number
\* n.  identity.json is absent, well formed ("ok"), not parseable as JSON
\* ("garbage": a partial write), or JSON whose key fields are missing or not
\* base64 ("badfields"); `key` is the key the file was written with.
NoFile == [kind |-> "absent", key |-> 0]

NoIdentity == [kind |-> "none", key |-> 0]

Damage == {"garbage", "badfields"}

\* 'trust-diary-v1', the salt of both services unless ROOM_SALT is set for
\* the Node service
DefaultSalt == <<"v1">>

Salts == {DefaultSalt, <<"v2">>}

NoRoom == << >>

\* Before the first start on a fresh data directory.
NotStarted ==
    /\ identityFile = NoFile
    /\ identity = NoIdentity
    /\ loadResult = "none"
    /\ keyDraws = 0
    /\ corruptions = 0
    /\ roomId = NoRoom

StartupIdle == NotStarted /\ roomSalt = DefaultSalt

\* naclUtil.encodeBase64 / base64.StdEncoding.EncodeToString of a public key:
\* the characters that stand for the key.
EncodeBase64(key) == <<"k", key>>

\* nacl.hash (SHA-512) and sha256.Sum256 as ideal hash functions: the digest
\* names the algorithm and the message.
NaclHash(message) == [alg |-> "SHA-512", message |-> message]

Sha256Sum256(message) == [alg |-> "SHA-256", message |-> message]

\* The first `n` characters of the base64 text of a digest.
Base64Prefix(digest, n) == <<digest, n>>

\* generateRoomId(): `${roomSalt}:${publicKey}`, nacl.hash, base64, 20 chars
GenerateRoomId(salt, publicKey) ==
    Base64Prefix(NaclHash(salt \o <<":">> \o EncodeBase64(publicKey)), 20)

\* generateRoomID(): "%s:%s" of salt and key, sha256.Sum256, base64, [:20]
GoGenerateRoomID(salt, publicKey) ==
    Base64Prefix(Sha256Sum256(salt \o <<":">> \o EncodeBase64(publicKey)), 20)

\* nacl.sign.keyPair() / ed25519.GenerateKey(rand.Reader)
GenerateKey(draws) == draws + 1

\* loadIdentity(): every exception of the try block (readFile, JSON.parse,
\* decodeBase64) ends in the catch block, which generates an identity and
\* writes it to identity.json.
LoadIdentity ==
    /\ service = "node"
    /\ loadResult = "none"
    /\ IF identityFile.kind = "ok"
       THEN /\ identity' = [kind |-> "ok", key |-> identityFile.key]
            /\ loadResult' = "loaded"
            /\ UNCHANGED <<identityFile, keyDraws>>
       ELSE /\ keyDraws < MaxKeyDraws
            /\ identity' = [kind |-> "ok", key |-> GenerateKey(keyDraws)]
            /\ identityFile' = [kind |-> "ok", key |-> GenerateKey(keyDraws)]
            /\ keyDraws' = keyDraws + 1
            /\ loadResult' = "generated"
    /\ UNCHANGED <<trustedKeys, entries, connections, pending, outbox, challengeDraws,
                   heard, known, failed, retired, trustEdits, corruptions, roomSalt,
                   roomId>>
    /\ UNCHANGED <<service, goTrustedUsers, goEntries, goConnections, goDataChannels,
                   goSent, goPending, goPeerCount, goChallengeDraws, goHeard, goFailed,
                   goTrustEdits, nostrState,
                   decodeState,
                   offerState>>

\* loadOrGenerateIdentity(): a file that cannot be read is generated anew; a
\* file that is not JSON is an error; the base64 decoding errors of the key
\* fields are dropped, and what was decoded becomes the identity.
GoLoadOrGenerateIdentity ==
    /\ service = "go"
    /\ loadResult = "none"
    /\ CASE identityFile.kind = "ok" ->
              /\ identity' = [kind |-> "ok", key |-> identityFile.key]
              /\ loadResult' = "loaded"
              /\ UNCHANGED <<identityFile, keyDraws>>
         [] identityFile.kind = "garbage" ->
              /\ loadResult' = "error"
              /\ UNCHANGED <<identity, identityFile, keyDraws>>
         [] identityFile.kind = "badfields" ->
              /\ identity' = [kind |-> "invalid", key |-> 0]
              /\ loadResult' = "loaded"
              /\ UNCHANGED <<identityFile, keyDraws>>
         [] identityFile.kind = "absent" ->
              /\ keyDraws < MaxKeyDraws
              /\ identity' = [kind |-> "ok", key |-> GenerateKey(keyDraws)]
              /\ identityFile' = [kind |-> "ok", key |-> GenerateKey(keyDraws)]
              /\ keyDraws' = keyDraws + 1
              /\ loadResult' = "generated"
    /\ UNCHANGED <<trustedKeys, entries, connections, pending, outbox, challengeDraws,
                   heard, known, failed, retired, trustEdits, corruptions, roomSalt,
                   roomId>>
    /\ UNCHANGED <<service, goTrustedUsers, goEntries, goConnections, goDataChannels,
                   goSent, goPending, goPeerCount, goChallengeDraws, goHeard, goFailed,
                   goTrustEdits, nostrState,
                   decodeState,
                   offerState>>

\* entries.json as a start finds it: absent, not parseable, or a log that a
\* run of the service saved (the ids of such a log are 1, 2, ...).
StoredEntries ==
    {[kind |-> "absent", log |-> << >>], [kind |-> "garbage", log |-> << >>]}
        \cup {[kind |-> "ok", log |-> l] : l \in {<<1>>, <<1, 2>>}}

\* loadEntries(): the parsed file is the log; on any exception the log is the
\* service's first entry (and is saved).
LoadEntries(stored) ==
    /\ service = "node"
    /\ loadResult \in {"loaded", "generated"}
    /\ entries = << >>
    /\ entries' = IF stored.kind = "ok" THEN stored.log ELSE <<1>>
    /\ UNCHANGED <<trustedKeys, connections, pending, outbox, challengeDraws, heard,
                   known, failed, retired, trustEdits>>
    /\ UNCHANGED goState

\* loadEntries(): a file that cannot be read gives the first entry; a file
\* that is not JSON is an error, which ends Initialize.
GoLoadEntries(stored) ==
    /\ service = "go"
    /\ loadResult \in {"loaded", "generated"}
    /\ goEntries = << >>
    /\ CASE stored.kind = "ok" ->
              /\ goEntries' = stored.log
              /\ UNCHANGED startupState
         [] stored.kind = "absent" ->
              /\ goEntries' = <<1>>
              /\ UNCHANGED startupState
         [] stored.kind = "garbage" ->
              /\ loadResult' = "error"
              /\ UNCHANGED <<goEntries, identityFile, identity, keyDraws, corruptions,
                             roomSalt, roomId>>
    /\ UNCHANGED <<goTrustedUsers, goConnections, goDataChannels, goSent, goPending,
                   goPeerCount, goChallengeDraws, goHeard, goFailed, goTrustEdits>>
    /\ UNCHANGED <<service, trustedKeys, entries, connections, pending, outbox,
                   challengeDraws, heard, known, failed, retired, trustEdits,
                   nostrState, decodeState,
                   offerState>>

\* startP2PRoom(): this.roomId = this.generateRoomId(), and the room is joined
StartP2PRoom ==
    /\ service = "node"
    /\ entries # << >>
    /\ roomId = NoRoom
    /\ roomId' = GenerateRoomId(roomSalt, identity.key)
    /\ UNCHANGED <<identityFile, identity, loadResult, keyDraws, corruptions, roomSalt>>
    /\ UNCHANGED <<trustedKeys, entries, connections, pending, outbox, challengeDraws,
                   heard, known, failed, retired, trustEdits>>
    /\ UNCHANGED <<service, goTrustedUsers, goEntries, goConnections, goDataChannels,
                   goSent, goPending, goPeerCount, goChallengeDraws, goHeard, goFailed,
                   goTrustEdits, nostrState,
                   decodeState,
                   offerState>>

\* Initialize(): s.roomID = s.generateRoomID()
GoSetRoomID ==
    /\ service = "go"
    /\ goEntries # << >>
    /\ roomId = NoRoom
    /\ roomId' = GoGenerateRoomID(roomSalt, identity.key)
    /\ UNCHANGED <<identityFile, identity, loadResult, keyDraws, corruptions, roomSalt>>
    /\ UNCHANGED <<trustedKeys, entries, connections, pending, outbox, challengeDraws,
                   heard, known, failed, retired, trustEdits>>
    /\ UNCHANGED <<service, goTrustedUsers, goEntries, goConnections, goDataChannels,
                   goSent, goPending, goPeerCount, goChallengeDraws, goHeard, goFailed,
                   goTrustEdits, nostrState,
                   decodeState,
                   offerState>>

\* The process ends (shutdown, or the fatal error of Initialize).
ProcessExit ==
    /\ loadResult # "none"
    /\ loadResult' = "none"
    /\ identity' = NoIdentity
    /\ roomId' = NoRoom
    /\ UNCHANGED <<identityFile, keyDraws, corruptions, roomSalt>>
    /\ entries' = << >>
    /\ pending' = {}
    /\ goEntries' = << >>
    /\ goPending' = {}
    /\ UNCHANGED <<trustedKeys, connections, outbox, challengeDraws, heard, known,
                   failed, retired, trustEdits>>
    /\ UNCHANGED <<service, goTrustedUsers, goConnections, goDataChannels, goSent,
                   goPeerCount, goChallengeDraws, goHeard, goFailed, goTrustEdits,
                   nostrState, decodeState,
                   offerState>>

\* identity.json is damaged between two runs: a write that was cut short, a
\* field lost or overwritten.
DamageIdentityFile(kind) ==
    /\ loadResult = "none"
    /\ identityFile.kind = "ok"
    /\ corruptions < MaxCorruptions
    /\ corruptions' = corruptions + 1
    /\ identityFile' = [identityFile EXCEPT !.kind = kind]
    /\ UNCHANGED <<identity, loadResult, keyDraws, roomSalt, roomId>>
    /\ UNCHANGED <<trustedKeys, entries, connections, pending, outbox, challengeDraws,
                   heard, known, failed, retired, trustEdits>>
    /\ UNCHANGED <<service, goTrustedUsers, goEntries, goConnections, goDataChannels,
                   goSent, goPending, goPeerCount, goChallengeDraws, goHeard, goFailed,
                   goTrustEdits, nostrState,
                   decodeState,
                   offerState>>

StartupInit ==
    /\ service \in {"node", "go"}
    /\ NodeIdle
    /\ GoIdle
    /\ NostrIdle
    /\ NothingDropped /\ OfferIdle
    /\ NotStarted
    /\ roomSalt \in (IF service = "node" THEN Salts ELSE {DefaultSalt})

\* The runs of a service on one data directory: each run loads the identity
\* and the log, and then takes add-entry operations.
StartupNext ==
    \/ LoadIdentity
    \/ GoLoadOrGenerateIdentity
    \/ \E stored \in StoredEntries : LoadEntries(stored)
    \/ \E stored \in StoredEntries : GoLoadEntries(stored)
    \/ entries # << >> /\ PostApiEntries
    \/ entries # << >> /\ AdminAddEntry
    \/ \E e \in pending : SaveEntriesResolved(e)
    \/ \E e \in pending : SaveEntriesRejected(e)
    \/ goEntries # << >> /\ GoHandleAddEntry
    \/ StartP2PRoom
    \/ GoSetRoomID
    \/ \E e \in goPending : GoHandleAddEntryBroadcast(e)
    \/ ProcessExit
    \/ \E kind \in Damage : DamageIdentityFile(kind)

StartupSpec == StartupInit /\ [][StartupNext]_vars

Init ==
    \/ service = "node" /\ NodeInit /\ GoIdle /\ StartupIdle /\ NostrIdle
          /\ NothingDropped /\ OfferIdle
    \/ service = "go" /\ NodeIdle /\ GoInit /\ StartupIdle /\ NostrIdle
          /\ NothingDropped /\ OfferIdle

Next ==
    \/ \E p \in Peers : HandlePeerJoin(p)
    \/ \E p \in Peers : PeerLeave(p)
    \/ \E c \in 1..MaxJoins : ReaderResponse(c)
    \/ \E s \in Signatures, k \in Keys : IntruderResponse(s, k)
    \/ \E p \in Peers, c \in retired, k \in Keys :
          LateResponse(p, [signer |-> k, msg |-> c], k)
    \/ PostApiEntries
    \/ AdminAddEntry
    \/ \E e \in pending : SaveEntriesResolved(e)
    \/ \E e \in pending : SaveEntriesRejected(e)
    \/ \E k \in Keys, b \in BoxKeys : PostApiTrusted(k, b)
    \/ \E k \in Keys : DeleteApiTrusted(k)
    \/ PresenceBroadcast
    \/ \E p \in Peers : GoHandleWebSocketSignaling(p)
    \/ \E id \in GoPeerIDs : GoOnDataChannel(id)
    \/ \E id \in GoPeerIDs : GoSendAuthChallenge(id)
    \/ \E id \in GoPeerIDs : GoReaderResponse(id)
    \/ \E id \in GoPeerIDs, s \in GoSignatures, k \in Keys : GoIntruderResponse(id, s, k)
    \/ \E id \in GoPeerIDs : GoHandleEntryRequest(id)
    \/ \E id \in GoPeerIDs : GoOnClose(id)
    \/ \E id \in GoPeerIDs : GoCleanup(id)
    \/ GoHandleAddEntry
    \/ \E e \in goPending : GoHandleAddEntryBroadcast(e)
    \/ \E k \in Keys : GoHandleAddTrusted(k)
    \/ \E k \in Keys : GoHandleRemoveTrusted(k)

Spec == Init /\ [][Next]_vars

NostrInit ==
    /\ service = "nostr"
    /\ NodeIdle
    /\ GoIdle
    /\ StartupIdle
    /\ NostrNew
    /\ NothingDropped /\ OfferIdle

NostrNext ==
    \/ \E peer \in Peers, offerMatches \in BOOLEAN : NostrHandleAnswer(peer, offerMatches)
    \/ NostrOnOpen
    \/ \E msg \in NostrMessages : NostrHandleDataChannelMessage(msg)
    \/ NostrChannelClose

\* The Nostr-signaled service from its start to the end of its one channel.
NostrSpec == NostrInit /\ [][NostrNext]_vars

\* The Go process runs: a panic in a callback's goroutine ends it.
GoRunning == ~goPanicked

ResponseNext ==
    \/ \E p \in Peers : HandlePeerJoin(p)
    \/ \E p \in Peers : PeerLeave(p)
    \/ \E c \in 1..MaxJoins : ReaderResponse(c)
    \/ \E s \in Signatures, k \in Keys : IntruderResponse(s, k)
    \/ \E p \in Peers, c \in retired, k \in Keys :
          LateResponse(p, [signer |-> k, msg |-> c], k)
    \/ \E p \in Peers, f \in Fields, g \in Fields : MalformedResponse(p, f, g)
    \/ GoRunning /\ \E p \in Peers : GoHandleWebSocketSignaling(p)
    \/ GoRunning /\ \E id \in GoPeerIDs : GoOnDataChannel(id)
    \/ GoRunning /\ \E id \in GoPeerIDs : GoSendAuthChallenge(id)
    \/ GoRunning /\ \E id \in GoPeerIDs : GoReaderResponse(id)
    \/ GoRunning /\ \E id \in GoPeerIDs, s \in GoSignatures, k \in Keys :
          GoIntruderResponse(id, s, k)
    \/ GoRunning /\ \E id \in GoPeerIDs : GoHandleEntryRequest(id)
    \/ GoRunning /\ \E id \in GoPeerIDs, data \in GoMalformedData :
          GoMalformedMessage(id, data)
    \/ GoRunning /\ \E id \in GoPeerIDs : GoOnClose(id)
    \/ GoRunning /\ \E id \in GoPeerIDs : GoCleanup(id)

\* The services under every message a peer can send, the malformed ones
\* included, with the trusted list and the log as the start left them.
ResponseSpec == Init /\ [][ResponseNext]_vars

CallbackInit == Init /\ service = "go"

CallbackNext ==
    \/ GoRunning /\ \E p \in Peers : GoHandleWebSocketSignaling(p)
    \/ GoRunning /\ \E id \in GoPeerIDs : GoOnDataChannel(id)
    \/ GoRunning /\ \E id \in GoPeerIDs : GoSendAuthChallenge(id)
    \/ GoRunning /\ \E id \in GoPeerIDs : GoReaderResponse(id)
    \/ GoRunning /\ \E id \in GoPeerIDs : GoHandleEntryRequest(id)
    \/ GoRunning /\ \E id \in GoPeerIDs : GoOnClose(id)
    \/ GoRunning /\ \E id \in GoPeerIDs : GoCleanupBeforeClose(id)
    \/ GoRunning /\ \E id \in GoPeerIDs : GoLateOnOpen(id)
    \/ GoRunning /\ \E id \in GoPeerIDs, type \in {"response", "request"} :
          GoLateOnMessage(id, type)
    \/ GoRunning /\ \E id \in GoPeerIDs : GoLateOnClose(id)

\* The Go service when signaling WebSockets close while their data channels'
\* callbacks are still to run.
CallbackSpec == CallbackInit /\ [][CallbackNext]_vars

\* main() of the two services up to run()
OfferInit ==
    /\ service \in {"encrypted", "simple"}
    /\ NodeIdle
    /\ GoIdle
    /\ StartupIdle
    /\ NostrIdle
    /\ NothingDropped
    /\ trustedReaders \in (IF service = "encrypted"
                           THEN {LoadTrustedReaders(file) : file \in TrustedReadersFiles}
                           ELSE {AddTrustedReaders})
    /\ peerConnection = 0
    /\ offerID = 0
    /\ runStep = "asleep"
    /\ remoteDescription = [pc \in 1..MaxOffers |-> NoAnswer]
    /\ answerLog = NoLog

OfferNext ==
    \/ CreatePeerConnection
    \/ PublishOffer
    \/ CreateOfferFails
    \/ \E pubKey \in NostrPubKeys, decrypts \in BOOLEAN, offer \in 1..MaxOffers :
          EncHandleWebRTCAnswer(pubKey, decrypts, offer)
    \/ \E pubKey \in NostrPubKeys, offer \in 1..MaxOffers :
          SimpleHandleWebRTCAnswer(pubKey, offer)

\* The offer loop of a Nostr service and the answers of its readers.
OfferSpec == OfferInit /\ [][OfferNext]_vars

\* ----------------------------------------------------------------- claims
StateOf(conns, p) == IF MapHas(conns, p) THEN MapGet(conns, p).state ELSE "absent"

\* The messages the step put on the room.
NewMessages == SubSeq(outbox', Len(outbox) + 1, Len(outbox'))

EntryIndexes == {i \in 1..Len(outbox) : outbox[i].type = "entry"}

\* C1: a peer whose valid signature came from a key absent from trustedKeys
\* (its session is 'untrusted') never becomes 'authenticated' and is never
\* among the recipients of an 'entry' message.
C1_TrustGating ==
    [][\A p \in Peers :
          StateOf(connections, p) = "untrusted" =>
              /\ StateOf(connections', p) # "authenticated"
              /\ \A i \in 1..Len(NewMessages) :
                    NewMessages[i].type = "entry" => p \notin NewMessages[i].to]_vars

\* Node: an 'authenticated' session was authenticated on a signature, by the
\* claimed key, over the challenge stored for that very session; that
\* challenge is the challenge of no other session, live or ended.
C2_NodeSessions ==
    \A p \in InRoom :
        Session(p).state = "authenticated" =>
            /\ Session(p).proof.msg = Session(p).challenge
            /\ Session(p).proof.signer = Session(p).publicKey
            /\ Session(p).challenge \notin retired
            /\ \A q \in InRoom \ {p} : Session(q).challenge # Session(p).challenge

\* Go: a step that authenticates a connection does so on a signature, by the
\* claimed key, over the challenge the connection held before the step, which
\* no other connection holds.
C2_GoConnections ==
    \A id \in DOMAIN goConnections :
        ( /\ id \in DOMAIN goConnections'
          /\ goConnections'[id].Authenticated
          /\ \/ ~goConnections[id].Authenticated
             \/ goConnections'[id].proof # goConnections[id].proof
             \/ goConnections'[id].PublicKey # goConnections[id].PublicKey )
        =>
        ( /\ goConnections'[id].proof.msg = goConnections[id].Challenge
          /\ goConnections'[id].proof.signer = goConnections'[id].PublicKey
          /\ \A other \in DOMAIN goConnections \ {id} :
                goConnections[other].Challenge # goConnections[id].Challenge )

\* C2: a session becomes 'authenticated' only on a signature that verifies
\* over the challenge stored for that same session; a signature over the
\* challenge of another session, or of an earlier session of the same peerId,
\* never authenticates it.  Both services.
C2_NoCrossChallengeReplay == []C2_NodeSessions /\ [][C2_GoConnections]_vars

\* A session authenticated after a rejoin, and after a response on it that
\* did not verify.
C2_Witness ==
    \E p \in InRoom :
        /\ Session(p).state = "authenticated"
        /\ p \in failed
        /\ retired # {}

\* A verification attempt has run against the challenge of p's session.
Consumed(p) ==
    \/ p \in failed
    \/ StateOf(connections, p) \in {"authenticated", "untrusted"}

\* C3: once a verification attempt has run against a session's challenge, no
\* later response changes the session.
C3_SingleUseChallenge ==
    [][\A p \in Peers :
          (Consumed(p) /\ MapHas(connections', p)) => Session(p)' = Session(p)]_vars

\* C4: a session that had a response whose signature did not verify is in a
\* rejected state and holds no challenge.
C4_InvalidSignatureRejects ==
    \A p \in failed :
        /\ Session(p).state = "rejected"
        /\ Session(p).challenge = 0

\* C5: a session is 'authenticated' with publicKey K only if the peer on it
\* holds K's private key.
C5_NoImpersonation ==
    \A p \in InRoom :
        Session(p).state = "authenticated" => Session(p).publicKey \in Holds(p)

SentFor(p, entry) ==
    \E i \in EntryIndexes :
        /\ outbox[i].session = Session(p).challenge
        /\ outbox[i].box.plain = entry
        /\ p \in outbox[i].to

\* C7: once no add operation is in flight, every connected reader with an
\* authenticated session has been sent every entry of the log.  Stated for
\* the readers whose key is in trustedKeys.
C7_EventualDelivery ==
    pending = {} =>
        \A p \in InRoom :
            (Session(p).state = "authenticated" /\ MapHas(trustedKeys, Session(p).publicKey))
            => \A i \in 1..Len(entries) : SentFor(p, entries[i])

\* C8: the messages broadcastEntry sends for one session carry the entries
\* in creation order.
C8_PerPeerOrdering ==
    \A i, j \in EntryIndexes :
        ( /\ i < j
          /\ outbox[i].by = "broadcastEntry" /\ outbox[j].by = "broadcastEntry"
          /\ outbox[i].session = outbox[j].session )
        => outbox[i].box.plain < outbox[j].box.plain

AuthenticatedPeers == {p \in InRoom : Session(p).state = "authenticated"}

\* The sessions in state 'authenticated' whose key is in trustedKeys, in the
\* order of the connections Map.
TrustedSessions ==
    SelectSeq(connections,
        LAMBDA kv : /\ kv[2].state = "authenticated"
                    /\ \E i \in 1..Len(trustedKeys) : trustedKeys[i][1] = kv[2].publicKey)

CanOpen(p, message) == p \in message.to /\ p = BoxHolder(message.box.boxKey)

C10_NonceFreshness ==
    \A i, j \in 1..Len(outbox) :
        (i # j /\ outbox[i].box.boxKey = outbox[j].box.boxKey)
        => outbox[i].box.nonce # outbox[j].box.nonce

\* The same entry was encrypted twice for the same box key: for a peer that
\* authenticated again, or for two sessions.
C10_Witness ==
    \E i, j \in EntryIndexes :
        /\ i < j
        /\ outbox[i].box.boxKey = outbox[j].box.boxKey
        /\ outbox[i].box.plain = outbox[j].box.plain

\* The state of the Node service proper.
ServiceState == <<trustedKeys, entries, connections, pending, outbox>>

\* The three parts of the teardown property, as properties of one step.
C11_Leave ==
    \A p \in Peers :
        PeerLeave(p) =>
            /\ ~MapHas(connections', p)
            /\ connections' = SelectSeq(connections, LAMBDA kv : kv[1] # p)

C11_Response ==
    \A p \in Peers, c \in retired, k \in Keys :
        LateResponse(p, [signer |-> k, msg |-> c], k) => ServiceState' = ServiceState

C11_Messages ==
    \A i \in 1..Len(NewMessages) :
        NewMessages[i].type = "entry" =>
            /\ NewMessages[i].to \subseteq MapKeys(connections')
            /\ \E q \in MapKeys(connections') :
                  MapGet(connections', q).challenge = NewMessages[i].session

\* C11: a peer leave removes that peerId's session record whatever its state
\* and touches no other record; while the peerId has no record, a response
\* from it changes nothing, and no entry message is produced for a session
\* that has no record or addressed to a peer that has none.
C11_DisconnectTeardown == [][C11_Leave /\ C11_Response /\ C11_Messages]_vars

\* A peer that had been sent the log has left, and an entry created before it
\* left was broadcast afterwards, for another session only.
C11_Witness ==
    \E i, j \in EntryIndexes :
        /\ i < j
        /\ outbox[i].by = "sendEntriesToPeer" /\ outbox[i].session \in retired
        /\ outbox[j].by = "broadcastEntry" /\ outbox[j].session \notin retired
        /\ Cardinality(outbox[i].to) = 2 /\ Cardinality(outbox[j].to) = 1

\* The plaintexts of a sequence of messages.
Plains(messages) == [i \in 1..Len(messages) |-> messages[i].box.plain]

C12_NewChallenge ==
    \A p \in Peers :
        HandlePeerJoin(p) =>
            /\ StateOf(connections', p) = "challenging"
            /\ MapGet(connections', p).challenge \notin retired
            /\ \A q \in InRoom : Session(q).challenge # MapGet(connections', p).challenge

C12_Authenticates ==
    \A c \in 1..MaxJoins, k \in Holds(Reader) :
        ( /\ retired # {}
          /\ ReaderResponse(c)
          /\ Session(Reader).state = "challenging"
          /\ Session(Reader).challenge = c
          /\ MapHas(trustedKeys, k) )
        =>
        ( /\ StateOf(connections', Reader) = "authenticated"
          /\ MapGet(connections', Reader).publicKey = k
          /\ Plains(NewMessages) = entries
          /\ \A i \in 1..Len(NewMessages) :
                /\ NewMessages[i].type = "entry"
                /\ NewMessages[i].session = c
                /\ NewMessages[i].box.boxKey = MapGet(trustedKeys, k) )

C13_IdentityContinuity ==
    /\ [][(loadResult = "none" /\ loadResult' # "none" /\ identityFile.kind \in Damage)
            => (loadResult' = "error" /\ identityFile' = identityFile
                                      /\ keyDraws' = keyDraws)]_vars
    /\ [](identity.kind # "none" => identity = [kind |-> "ok", key |-> 1])

\* C14: when the save of an add-entry operation fails, the operation has no
\* effect: the entry it appended is not in the log afterwards (the log is
\* what it was before the operation), and nothing is broadcast.
C14_FailedSaveRefuses ==
    [][\A e \in pending :
          SaveEntriesRejected(e) =>
              /\ \A i \in 1..Len(entries') : entries'[i] # e
              /\ outbox' = outbox]_vars

IsPrefix(s, t) == Len(s) <= Len(t) /\ SubSeq(t, 1, Len(s)) = s

\* C15: every step of the running service (add entry over HTTP or the admin
\* WebSocket, authentication, broadcast, trust edits, peer join and leave)
\* leaves the log it found as a prefix of the log it leaves: no entry is
\* removed, moved or modified.
C15_AppendOnly == [][IsPrefix(entries, entries') /\ IsPrefix(goEntries, goEntries')]_vars

\* The log has grown by two entries, one of them already broadcast to an
\* authenticated reader, and the trust list has been edited.
C15_Witness ==
    /\ entries = <<1, 2, 3>>
    /\ trustEdits > 0
    /\ retired # {}
    /\ \E i \in EntryIndexes : outbox[i].by = "broadcastEntry" /\ outbox[i].box.plain = 2

Increasing(log) == \A i, j \in 1..Len(log) : i < j => log[i] < log[j]

C16_Appended(log, log2) ==
    Len(log2) > Len(log) => \A i \in 1..Len(log) : log[i] < log2[Len(log2)]

RecordsOf(m, k) == {i \in 1..Len(m) : m[i][1] = k}

\* C17: POST /api/trusted with signing key k and box key b leaves exactly one
\* record for k, carrying b; the records of the other keys are as before;
\* the key set is the old one with k; and adding k with b once more changes
\* nothing.  The Go trust list gains the key and nothing else.
C17_Upsert ==
    [][/\ \A k \in Keys, b \in BoxKeys :
              PostApiTrusted(k, b) =>
                  /\ Cardinality(RecordsOf(trustedKeys', k)) = 1
                  /\ MapGet(trustedKeys', k) = b
                  /\ MapKeys(trustedKeys') = MapKeys(trustedKeys) \cup {k}
                  /\ \A q \in MapKeys(trustedKeys) \ {k} :
                         /\ Cardinality(RecordsOf(trustedKeys', q)) = 1
                         /\ MapGet(trustedKeys', q) = MapGet(trustedKeys, q)
                  /\ MapSet(trustedKeys', k, b) = trustedKeys'
       /\ \A k \in Keys :
              GoHandleAddTrusted(k) => goTrustedUsers' = goTrustedUsers \cup {k}]_vars

\* K1 was trusted with box key B1 from the start and has been added again
\* with box key B2, beside a record for K2.
C17_Witness ==
    /\ service = "node"
    /\ MapKeys(trustedKeys) = {"K1", "K2"}
    /\ MapGet(trustedKeys, "K1") = "B2"
    /\ trustEdits = 2

\* The box keys of the messages sendEntriesToPeer sent for the session with
\* this challenge: the box key its signing key was bound to when it
\* authenticated.
BoxKeysAtAuthentication(challenge) ==
    {outbox[i].box.boxKey : i \in {j \in EntryIndexes :
        outbox[j].by = "sendEntriesToPeer" /\ outbox[j].session = challenge}}

\* C18 as stated: while a key under which a session authenticated is absent
\* from the trusted list, no entry and no presence announcement is encrypted
\* for the box key that key was bound to.
C18_NoMessageForRemovedKey ==
    [][\A p \in InRoom :
          (/\ Session(p).state = "authenticated"
           /\ ~MapHas(trustedKeys', Session(p).publicKey))
          => \A i \in 1..Len(NewMessages) :
                NewMessages[i].box.boxKey \notin BoxKeysAtAuthentication(Session(p).challenge)]_vars

\* C18, amended: every message the service produces is encrypted for the box
\* key that the trusted list binds, at that moment, to a signing key: an
\* entry to the key of an authenticated session, an announcement to a key of
\* the list.  A session whose key was removed gets nothing, and nothing is
\* produced on account of the removed record.
C18_Revocation ==
    [][\A i \in 1..Len(NewMessages) :
          /\ NewMessages[i].type = "entry" =>
                \E q \in MapKeys(connections') :
                    /\ MapGet(connections', q).challenge = NewMessages[i].session
                    /\ MapGet(connections', q).state = "authenticated"
                    /\ MapHas(trustedKeys', MapGet(connections', q).publicKey)
                    /\ NewMessages[i].box.boxKey =
                          MapGet(trustedKeys', MapGet(connections', q).publicKey)
          /\ NewMessages[i].type = "announce" =>
                \E k \in MapKeys(trustedKeys') :
                    NewMessages[i].box.boxKey = MapGet(trustedKeys', k)]_vars

\* The reader authenticated under K1 and is still connected; K1 is no longer
\* trusted; a later broadcast of an entry produced a message for another
\* session and none for the reader's.
C18_Witness ==
    /\ IsAuthenticated(connections, Reader)
    /\ Session(Reader).publicKey = "K1"
    /\ ~MapHas(trustedKeys, "K1")
    /\ \E i, j \in EntryIndexes :
          /\ i < j
          /\ outbox[i].by = "sendEntriesToPeer"
          /\ outbox[i].session = Session(Reader).challenge
          /\ outbox[j].by = "broadcastEntry"
          /\ outbox[j].session # Session(Reader).challenge
          /\ \A n \in EntryIndexes :
                outbox[n].by = "broadcastEntry" => outbox[n].session # Session(Reader).challenge

\* C19: the room id of a running service is what every participant derives
\* from the salt and the service's signing public key: the derivation of the
\* Node service and that of the Go service give the same identifier, the one
\* the service computed, in every run that loads the same identity.
C19_RendezvousDeterminism ==
    roomId # NoRoom =>
        /\ roomId = GenerateRoomId(roomSalt, identity.key)
        /\ roomId = GoGenerateRoomID(roomSalt, identity.key)

\* The messages a step appended to the channel of a Go connection.
GoNewMessages(peerID) ==
    SubSeq(goSent'[peerID], Len(goSent[peerID]) + 1, Len(goSent'[peerID]))

\* C20: a 'request' on a Go connection whose state is "authenticated" is
\* answered with every current entry, oldest first; a 'request' on a
\* connection in any other state is answered with nothing.
C20_RequestHandling ==
    [][\A id \in DOMAIN goDataChannels :
          GoHandleEntryRequest(id) =>
              IF goConnections[id].State = "authenticated"
              THEN /\ Len(GoNewMessages(id)) = Len(goEntries)
                   /\ \A i \in 1..Len(goEntries) :
                         /\ GoNewMessages(id)[i].type = "entry"
                         /\ GoNewMessages(id)[i].entry = goEntries[i]
              ELSE goSent' = goSent]_vars

\* C21: Authenticated channels only, in the Go service signaled over Nostr:
\* every 'entry' message on the data channel is sent after the service has
\* handled a response whose signature verifies over the challenge it sent; a
\* channel whose peer has sent no such response carries no entry, whatever
\* messages the peer sends.
NostrValidResponse(msg) ==
    /\ msg.json
    /\ msg.type = "response"
    /\ \E i \in 1..Len(nostrSent) :
          /\ nostrSent[i].type = "challenge"
          /\ Ed25519Verify(msg.signature.signer, nostrSent[i].challenge, msg.signature)

C22_GoEntryConfidentiality ==
    \A peerID \in DOMAIN goSent :
        \A i \in 1..Len(goSent[peerID]) :
            goSent[peerID][i].type = "entry" =>
                /\ "box" \in DOMAIN goSent[peerID][i]
                /\ "entry" \notin DOMAIN goSent[peerID][i]

\* C23: Inert untrusted session: while a session stays in state 'untrusted',
\* the service sends no further message to its peer: no challenge (of another
\* peer's join), no entry and no presence announcement reaches it.
C23_InertUntrustedSession ==
    [][\A p \in Peers :
          (StateOf(connections, p) = "untrusted" /\ StateOf(connections', p) = "untrusted")
              => /\ heard'[p] \subseteq heard[p]
                 /\ \A i \in (Len(outbox) + 1)..Len(outbox') : p \notin outbox'[i].to]_vars

\* C24: Authentication failures are not reported to the peer: a response that
\* is unexpected, whose signature does not verify, whose key is not trusted or
\* whose fields do not decode makes the service send nothing, in the Node
\* service and in the Go service.
NodeResponseSucceeds(peerId, signature, publicKey) ==
    /\ MapHas(connections, peerId)
    /\ Session(peerId).state = "challenging"
    /\ NaclSignDetachedVerify(Session(peerId).challenge, signature, publicKey)
    /\ MapHas(trustedKeys, publicKey)

GoResponseSucceeds(peerID, signature, publicKey) ==
    /\ peerID \in DOMAIN goConnections
    /\ goConnections[peerID].Challenge # NoChallenge
    /\ Ed25519Verify(publicKey, goConnections[peerID].Challenge, signature)
    /\ publicKey \in goTrustedUsers

NodeFailedResponse ==
    \/ \E c \in 1..MaxJoins :
          /\ ReaderResponse(c)
          /\ \A k \in Holds(Reader) :
                ~NodeResponseSucceeds(Reader, [signer |-> k, msg |-> c], k)
    \/ \E s \in Signatures, k \in Keys :
          IntruderResponse(s, k) /\ ~NodeResponseSucceeds(Intruder, s, k)
    \/ \E p \in Peers, c \in retired, k \in Keys :
          LateResponse(p, [signer |-> k, msg |-> c], k)
    \/ \E p \in Peers, f \in Fields, g \in Fields : MalformedResponse(p, f, g)

GoFailedResponse ==
    \/ \E id \in GoPeerIDs :
          /\ GoReaderResponse(id)
          /\ \A k \in Holds(Reader) :
                ~GoResponseSucceeds(id, [signer |-> k, msg |-> goConnections[id].Challenge], k)
    \/ \E id \in GoPeerIDs, s \in GoSignatures, k \in Keys :
          GoIntruderResponse(id, s, k) /\ ~GoResponseSucceeds(id, s, k)
    \/ \E id \in GoPeerIDs, data \in GoMalformedData :
          data.type = "response" /\ GoMalformedMessage(id, data)

C25_TerminalStates ==
    [][\A p \in Peers :
          StateOf(connections, p) \in {"authenticated", "untrusted"} =>
              IF MapHas(connections', p)
              THEN /\ MapGet(connections', p).state = Session(p).state
                   /\ MapGet(connections', p).publicKey = Session(p).publicKey
              ELSE PeerLeave(p)]_vars

\* The reader's session outlived the removal of its key, and the other peer's
\* session stayed 'untrusted' after its key was added.
C25_Witness ==
    /\ StateOf(connections, Reader) = "authenticated"
    /\ Session(Reader).publicKey = "K1"
    /\ ~MapHas(trustedKeys, "K1")
    /\ StateOf(connections, Intruder) = "untrusted"
    /\ MapHas(trustedKeys, "K2")

\* C26: in the Go service, once handleAuthResponse has classified a connection
\* ("authenticated" under a key, or "untrusted"), a later response on that
\* connection changes neither its State nor its PublicKey nor its
\* Authenticated flag.
C26_GoClassificationStable ==
    [][\A id \in DOMAIN goConnections :
          (/\ goConnections[id].State \in {"authenticated", "untrusted"}
           /\ \/ GoReaderResponse(id)
              \/ \E s \in GoSignatures, k \in Keys : GoIntruderResponse(id, s, k))
              => /\ goConnections'[id].State = goConnections[id].State
                 /\ goConnections'[id].PublicKey = goConnections[id].PublicKey
                 /\ goConnections'[id].Authenticated = goConnections[id].Authenticated]_vars

C27_Records ==
    \A p \in InRoom :
        /\ Session(p).state \in {"challenging", "untrusted", "authenticated"}
        /\ Session(p).challenge \in 1..MaxJoins
        /\ Session(p).publicKey # NoKey <=> Session(p).state = "authenticated"

C27_Transition ==
    \A p \in Peers :
        (StateOf(connections', p) = "authenticated" /\ StateOf(connections, p) # "authenticated")
            => /\ StateOf(connections, p) = "challenging"
               /\ MapHas(trustedKeys, MapGet(connections', p).publicKey)
               /\ NaclSignDetachedVerify(Session(p).challenge,
                      MapGet(connections', p).proof, MapGet(connections', p).publicKey)
               /\ MapGet(connections', p).challenge = Session(p).challenge

\* C27: Session record invariant in the Node service: every record of the
\* connections map has state 'challenging', 'untrusted' or 'authenticated' and
\* holds a challenge; its publicKey is set exactly when its state is
\* 'authenticated', and the step that made it so found that key in trustedKeys
\* and verified its signature over the record's challenge.
C27_SessionRecordInvariant == []C27_Records /\ [][C27_Transition]_vars

C27_Witness ==
    /\ StateOf(connections, Reader) = "authenticated"
    /\ Session(Reader).publicKey = "K1"
    /\ StateOf(connections, Intruder) = "untrusted"
    /\ Session(Intruder).publicKey = NoKey
    /\ Intruder \in failed
    /\ Session(Intruder).challenge # Session(Reader).challenge

\* The session record of q is the same before and after the step.
SameRecord(q) ==
    /\ MapHas(connections', q) <=> MapHas(connections, q)
    /\ MapHas(connections, q) => MapGet(connections', q) = MapGet(connections, q)

ResponseOf(p) ==
    \/ p = Reader /\ \E c \in 1..MaxJoins : ReaderResponse(c)
    \/ p = Intruder /\ \E s \in Signatures, k \in Keys : IntruderResponse(s, k)
    \/ \E c \in retired, k \in Keys : LateResponse(p, [signer |-> k, msg |-> c], k)
    \/ \E f \in Fields, g \in Fields : MalformedResponse(p, f, g)

\* C28: Session independence: handling a response from peer P writes P's
\* session record only, leaving every other peer's record, the trusted list
\* and the entry log as they were; a join or a leave of P changes no other
\* peer's record either.
C28_SessionIndependence ==
    [][\A p \in Peers :
          /\ ResponseOf(p) =>
                /\ \A q \in Peers \ {p} : SameRecord(q)
                /\ trustedKeys' = trustedKeys
                /\ entries' = entries
          /\ (HandlePeerJoin(p) \/ PeerLeave(p)) =>
                \A q \in Peers \ {p} : SameRecord(q)]_vars

\* The other peer joined and had a response rejected while the reader's
\* session was authenticated.
C28_Witness ==
    /\ StateOf(connections, Reader) = "authenticated"
    /\ StateOf(connections, Intruder) = "challenging"
    /\ Intruder \in failed
    /\ Session(Reader).challenge < Session(Intruder).challenge

C30_MalformedDropped ==
    [][(\/ \E p \in Peers, f \in Fields, g \in Fields : MalformedResponse(p, f, g)
        \/ \E id \in GoPeerIDs, data \in GoMalformedData : GoMalformedMessage(id, data))
          => /\ connections' = connections
             /\ trustedKeys' = trustedKeys
             /\ entries' = entries
             /\ outbox' = outbox
             /\ goConnections' = goConnections
             /\ goTrustedUsers' = goTrustedUsers
             /\ goEntries' = goEntries
             /\ goSent' = goSent
             /\ ~goPanicked']_vars

\* C31: No duplicate sends within a session: the Node service sends each log
\* entry at most once for one authenticated session, also when the session is
\* authenticated between the append of an entry and its broadcastEntry.
C31_NoDuplicateSends ==
    \A i, j \in EntryIndexes :
        (i < j /\ outbox[i].session = outbox[j].session)
            => outbox[i].box.plain # outbox[j].box.plain

\* C32: Offer/answer matching in the encrypted Nostr service: every answer
\* SetRemoteDescription has taken came from a trusted reader, decrypted,
\* carried the offer id current at that moment, and was applied to the peer
\* connection that offer was created for, whatever the interleaving with
\* createAndPublishOffer.
C32_OfferAnswerMatching ==
    service = "encrypted" =>
        \A pc \in 1..MaxOffers :
            remoteDescription[pc] # NoAnswer =>
                /\ EncIsTrustedReader(remoteDescription[pc].from)
                /\ remoteDescription[pc].decrypts
                /\ remoteDescription[pc].offer = remoteDescription[pc].current
                /\ remoteDescription[pc].offer = pc

\* C33: Wildcard trust in the simplified Nostr service: with the map that
\* addTrustedReaders configures, handleWebRTCAnswer applies an answer for the
\* current offer from every reader public key.
C33_WildcardTrust ==
    (/\ service = "simple"
     /\ answerLog.from \in NostrPubKeys
     /\ answerLog.offer = answerLog.current)
        => answerLog.line \in {"established", "failed"}

\* C34: Go connection invariant: in every reachable state every connection
\* record has Authenticated true exactly when its State is "authenticated".
C34_GoAuthenticatedIffState ==
    \A peerID \in DOMAIN goConnections :
        goConnections[peerID].Authenticated
            <=> goConnections[peerID].State = "authenticated"

\* C35: Go callback safety: no data-channel callback (OnOpen calling
\* sendAuthChallenge, OnMessage, OnClose) runs into a connection record that
\* the cleanup after the signaling WebSocket's close has deleted.
C35_CallbackSafety ==
    \A peerID \in DOMAIN goOrphans : goOrphans[peerID] # "dereferenced"

====
